---- MODULE Spec2Model ----
(***************************************************************************)
(* Namespace discovery resolver of docker/distribution (package namespace). *)
(*                                                                         *)
(* Part 1: ExpiringEntriesCache and cacheResolver (expiring FIFO cache of  *)
(*         resolved Entries behind a mutex, and the resolver wrapping a    *)
(*         base resolver with it).                                         *)
(* Part 2: httpResolver.resolveEntries (recursive discovery over namespace *)
(*         extensions with a per-call visited set).                        *)
(***************************************************************************)
EXTENDS Integers, Sequences, FiniteSets, TLC

(***************************************************************************)
(* Bounds of the cache model.                                              *)
(***************************************************************************)
MaxTime == 2            \* the clock runs over 0..MaxTime
Tau == 1                \* the non-zero expireAfter that is explored

Threads == {"t1", "t2"}
Names == {"a", "b", "c"}
Errors == {"e404", "eTransport"}
Sizes == {1, 2}         \* size > 0: NewExpiringEntriesCache creates the queue
NilSizes == {-1, 0}     \* size <= 0: the queue stays nil
ExpireAfters == {0, Tau}

NoThread == "free"
NilEntries == 0         \* the nil *Entries
NoError == "nil"

VARIABLES
    size,               \* ExpiringEntriesCache.size
    expireAfter,        \* ExpiringEntriesCache.expireAfter
    cache,              \* ExpiringEntriesCache.cache: map name -> cacheEntry
    expirationQueue,    \* ExpiringEntriesCache.expirationQueue (<<>> also when nil)
    mutex,              \* holder of ExpiringEntriesCache.mutex, or NoThread
    now,                \* time.Now()
    pc,                 \* per thread: position in cacheResolver.Resolve / Store
    call,               \* per thread: the call it is in (Resolve or a direct Store)
    tname,              \* per thread: the name argument
    tval,               \* per thread: the entries to store
    entry,              \* per thread: the local cacheEntry built by Store
    evicted,            \* history, per thread: the name its Store evicted for capacity
    replaced,           \* history, per thread: its Store found the name cached
    raced,              \* history, per thread: another Resolve stored the same
                        \* name between this Resolve's miss and its Store
    ret,                \* what the step just taken returned to a caller, if it returned
    lastStore,          \* history: the last Store call and when it read the clock
    storeOrder          \* history: cached names in the order of their last Store

cacheVars == <<size, expireAfter, cache, expirationQueue, mutex, now,
               pc, call, tname, tval, entry, evicted, replaced, raced, ret, lastStore,
               storeOrder>>

VARIABLES
    config,             \* HTTPResolverConfig: IgnoreNSDiscoveryErrors, kind of
                        \* NSResolveCallback, kind of ResolverFactory
    hname,              \* the name argument of the top-level Resolve
    docs,               \* what the discovery endpoints serve, fixed at the first Get of a name
    hstate,             \* "idle", "running" or "done": the top-level Resolve call
    stack,              \* frames of resolveEntries, innermost last
    acc,                \* the Entries that Resolve passes to the outermost frame
    visited,            \* the visited map of this Resolve call
    herr,               \* the error an inner resolveEntries just returned
    hret,               \* what Resolve returned
    gets                \* history: number of Client.Get calls per name

httpVars == <<config, hname, docs, hstate, stack, acc, visited, herr, hret, gets>>

VARIABLES
    presp,              \* the response of Client.Get for the discovery URL of pname
    pname,              \* the name whose discovery document is fetched and parsed
    pstate,             \* "get", "parsing" or "done": one fetch and parse
    ptokens,            \* number of tokens the tokenizer has handed out
    parsedScope,        \* parseHTMLHead's parsedScope, "" while none was read
    readingMetaTags,    \* parseHTMLHead's readingMetaTags
    pentries,           \* parseHTMLHead's entries
    pmeta,              \* what the last call of parseHTMLMetaTag got and returned
    pret,               \* what the fetch and parse returned
    pend,               \* history: how the parsing loop ended ("" while it has not)
    pscopes             \* history: number of docker-scope tags parsed without error

parseVars == <<presp, pname, pstate, ptokens, parsedScope, readingMetaTags, pentries,
               pmeta, pret, pend, pscopes>>

VARIABLES
    qname,              \* the name argument of resolveEntries
    qparsed,            \* the entries that parseHTMLHead returned for it
    qstate,             \* "parsed" or "pruned": lines 317-356 for one document
    qentries,           \* entries.entries after line 356
    qcalls,             \* history: calls of NSResolveCallback(name, "")
    qargcalls,          \* history: the positions <<entry, arg>> of the args the
                        \* callback was called with, in the order of the calls
    qexts               \* per entry: the args appended to extensions

pruneVars == <<qname, qparsed, qstate, qentries, qcalls, qargcalls, qexts>>

VARIABLES
    hname2,             \* a second Resolve call on the same httpResolver: its name,
    hstate2,            \* its state,
    stack2,             \* its frames of resolveEntries,
    acc2,               \* its Entries,
    visited2,           \* its visited map,
    herr2,              \* the error its inner resolveEntries just returned,
    hret2               \* and what it returned

call2Vars == <<hname2, hstate2, stack2, acc2, visited2, herr2, hret2>>

VARIABLES
    tracker,            \* cachedBlobStatter.tracker: whether one is set, and its counters
    blobs,              \* the digests the backend has a blob for
    descriptors,        \* the digests the cache holds a descriptor for
    requests,           \* history: number of Stat calls made
    sret                \* history: what the last Stat met and returned

statVars == <<tracker, blobs, descriptors, requests, sret>>

vars == <<cacheVars, httpVars, parseVars, pruneVars, call2Vars, statVars>>

NoEntry == [name |-> "", created |-> 0, entries |-> NilEntries]
NoRet == [thread |-> NoThread, call |-> "none", name |-> "", how |-> "none",
          val |-> NilEntries, err |-> NoError, baseErr |-> NoError, raced |-> FALSE,
          evicted |-> "", replaced |-> FALSE]
NoStore == [name |-> "", at |-> 0, val |-> NilEntries]

\* every call allocates its own Entries: they are named after the calling thread
EntriesOf(t) == IF t = "t1" THEN 1 ELSE 2

Returned(t, c, n, h, v, e, r) ==
    [thread |-> t, call |-> c, name |-> n, how |-> h, val |-> v, err |-> e,
     baseErr |-> NoError, raced |-> r, evicted |-> "", replaced |-> FALSE]

(***************************************************************************)
(* Go map and container/list helpers.                                      *)
(***************************************************************************)
MapDelete(m, k) == [x \in (DOMAIN m) \ {k} |-> m[x]]

MapPut(m, k, e) == [x \in (DOMAIN m) \cup {k} |-> IF x = k THEN e ELSE m[x]]

ListRemoveAt(q, i) == SubSeq(q, 1, i - 1) \o SubSeq(q, i + 1, Len(q))

\* a list whose PushBack links the element in front
listPushBack_Front(q, e) == <<e>> \o q

listPushBack(q, e) == Append(q, e)

SeqFilter(s, S) == SelectSeq(s, LAMBDA x : x \in S)

\* NewExpiringEntriesCache creates the list only when size > 0
QueueIsNil == size <= 0

newCacheEntry(n, v) == [name |-> n, created |-> now, entries |-> v]

\* a sweep that already drops an entry at the instant its TTL is reached
Expired_AtTTL(e) == e.created + expireAfter <= now

\* created.Add(expireAfter).Before(now)
Expired(e) == e.created + expireAfter < now

\* a sweep that empties the cache once the head has expired
gcLoop_Whole(c, q) ==
    IF q # <<>> /\ Expired(Head(q))
    THEN [cache |-> << >>, queue |-> << >>]
    ELSE [cache |-> c, queue |-> q]

RECURSIVE gcLoop(_, _)
gcLoop(c, q) ==
    IF q # <<>> /\ Expired(Head(q))
    THEN gcLoop(MapDelete(c, Head(q).name), Tail(q))
    ELSE [cache |-> c, queue |-> q]

\* a sweep that does not test expireAfter = 0 before it walks the queue
garbageCollectExpired_Always(c, q) ==
    IF QueueIsNil
    THEN [cache |-> c, queue |-> q]
    ELSE gcLoop(c, q)

garbageCollectExpired(c, q) ==
    IF QueueIsNil \/ expireAfter = 0
    THEN [cache |-> c, queue |-> q]
    ELSE gcLoop(c, q)

\* the loop of Store that looks for the node of the entry being replaced:
\* index of the first node that is not older than e and carries e's name
RECURSIVE findNode(_, _, _)
findNode(q, e, i) ==
    IF i > Len(q) THEN 0
    ELSE IF q[i].created < e.created \/ q[i].name # e.name
         THEN findNode(q, e, i + 1)
         ELSE i

\* a Store that does not look for a prior entry of the name
storeReplace_None(c, q, n) == [cache |-> c, queue |-> q]

\* a replace that deletes from the map and leaves the node in the queue
storeReplace_KeepNode(c, q, n) ==
    IF n \in DOMAIN c
    THEN [cache |-> MapDelete(c, n), queue |-> q]
    ELSE [cache |-> c, queue |-> q]

\* Store, replacing a present entry: delete it from the map and unlink its node
storeReplace(c, q, n) ==
    IF n \in DOMAIN c
    THEN LET i == findNode(q, c[n], 1)
         IN [cache |-> MapDelete(c, n),
             queue |-> IF i > 0 THEN ListRemoveAt(q, i) ELSE q]
    ELSE [cache |-> c, queue |-> q]

\* a capacity test that evicts whenever anything is cached
storeAtCapacity_NonEmpty(c) == size > 0 /\ c # << >>

\* a capacity test that lets the map grow one past size before it evicts
storeAtCapacity_Over(c) == size > 0 /\ Cardinality(DOMAIN c) > size

\* Store: sc.size > 0 && len(sc.cache) >= sc.size
storeAtCapacity(c) == size > 0 /\ Cardinality(DOMAIN c) >= size

\* an eviction that takes the back (youngest) node
storeEvict_Back(c, q) ==
    IF storeAtCapacity(c)
    THEN [cache |-> MapDelete(c, q[Len(q)].name), queue |-> SubSeq(q, 1, Len(q) - 1)]
    ELSE [cache |-> c, queue |-> q]

\* Store, at capacity: delete the front node's name and unlink the node
storeEvict(c, q) ==
    IF storeAtCapacity(c)
    THEN [cache |-> MapDelete(c, Head(q).name), queue |-> Tail(q)]
    ELSE [cache |-> c, queue |-> q]

(***************************************************************************)
(* Init: state after NewExpiringEntriesCache / NewCacheResolver.           *)
(***************************************************************************)
CacheInitWith(S, E) ==
    /\ size \in S
    /\ expireAfter \in E
    /\ cache = << >>
    /\ expirationQueue = << >>
    /\ mutex = NoThread
    /\ now = 0
    /\ pc = [t \in Threads |-> "idle"]
    /\ call = [t \in Threads |-> "none"]
    /\ tname = [t \in Threads |-> ""]
    /\ tval = [t \in Threads |-> NilEntries]
    /\ entry = [t \in Threads |-> NoEntry]
    /\ evicted = [t \in Threads |-> ""]
    /\ replaced = [t \in Threads |-> FALSE]
    /\ raced = [t \in Threads |-> FALSE]
    /\ ret = NoRet
    /\ lastStore = NoStore
    /\ storeOrder = << >>

Tick ==
    /\ now < MaxTime
    /\ now' = now + 1
    /\ ret' = NoRet
    /\ UNCHANGED <<size, expireAfter, cache, expirationQueue, mutex,
                   pc, call, tname, tval, entry, evicted, replaced, raced, lastStore, storeOrder>>
    /\ UNCHANGED <<statVars, httpVars, parseVars, pruneVars, call2Vars>>

\* a Lookup that returns without unlocking
LookupUnlock_Held(t) == t

\* mutex state after the deferred Unlock of Lookup
LookupUnlock(t) == NoThread

\* a map read that never finds the key
lookupEntries_Miss(c, n) == NilEntries

\* entry, _ := sc.cache[name]; return entry.entries
lookupEntries(c, n) == IF n \in DOMAIN c THEN c[n].entries ELSE NilEntries

\* ExpiringEntriesCache.Lookup(n) called directly: Lock, sweep, map read,
\* deferred Unlock
Lookup(t, n) ==
    /\ pc[t] = "idle"
    /\ mutex = NoThread
    /\ LET gc == garbageCollectExpired(cache, expirationQueue)
           entries == lookupEntries(gc.cache, n)
       IN /\ cache' = gc.cache
          /\ expirationQueue' = gc.queue
          /\ storeOrder' = SeqFilter(storeOrder, DOMAIN gc.cache)
          /\ ret' = Returned(t, "Lookup", n, IF entries # NilEntries THEN "hit" ELSE "miss",
                           entries, NoError, FALSE)
    /\ mutex' = LookupUnlock(t)
    /\ UNCHANGED <<size, expireAfter, now, pc, call, tname, tval, entry, evicted, replaced, raced,
                   lastStore>>
    /\ UNCHANGED <<statVars, httpVars, parseVars, pruneVars, call2Vars>>

\* cacheResolver.Resolve(n) up to the result of cr.cache.Lookup(n): a hit
\* returns the cached entries, a miss goes on to the base resolver
Resolve(t, n) ==
    /\ pc[t] = "idle"
    /\ mutex = NoThread
    /\ LET gc == garbageCollectExpired(cache, expirationQueue)
           entries == lookupEntries(gc.cache, n)
       IN /\ cache' = gc.cache
          /\ expirationQueue' = gc.queue
          /\ storeOrder' = SeqFilter(storeOrder, DOMAIN gc.cache)
          /\ IF entries # NilEntries
             THEN /\ ret' = Returned(t, "Resolve", n, "hit", entries, NoError, FALSE)
                  /\ UNCHANGED <<pc, call, tname>>
             ELSE /\ pc' = [pc EXCEPT ![t] = "base"]
                  /\ call' = [call EXCEPT ![t] = "Resolve"]
                  /\ tname' = [tname EXCEPT ![t] = n]
                  /\ ret' = NoRet
    /\ mutex' = LookupUnlock(t)
    /\ UNCHANGED <<size, expireAfter, now, tval, entry, evicted, replaced, raced, lastStore>>
    /\ UNCHANGED <<statVars, httpVars, parseVars, pruneVars, call2Vars>>

\* a Resolve that reports every failure of the base resolver as the same error
BaseErr_Fixed(e) == "e404"

\* the error cacheResolver.Resolve returns when the base resolver returned e
BaseErr(e) == e

\* cr.baseResolver.Resolve(name) returns entries: Resolve goes on to Store
BaseResolveOK(t, v) ==
    /\ pc[t] = "base"
    /\ pc' = [pc EXCEPT ![t] = "Store"]
    /\ tval' = [tval EXCEPT ![t] = v]
    /\ ret' = NoRet
    /\ UNCHANGED <<size, expireAfter, cache, expirationQueue, mutex, now,
                   call, tname, entry, evicted, replaced, raced, lastStore, storeOrder>>
    /\ UNCHANGED <<statVars, httpVars, parseVars, pruneVars, call2Vars>>

\* cr.baseResolver.Resolve(name) fails: Resolve returns nil and the error
BaseResolveErr(t, e) ==
    /\ pc[t] = "base"
    /\ pc' = [pc EXCEPT ![t] = "idle"]
    /\ ret' = [Returned(t, "Resolve", tname[t], "err", NilEntries, BaseErr(e), FALSE)
                 EXCEPT !.baseErr = e]
    /\ call' = [call EXCEPT ![t] = "none"]
    /\ tname' = [tname EXCEPT ![t] = ""]
    /\ raced' = [raced EXCEPT ![t] = FALSE]
    /\ UNCHANGED <<size, expireAfter, cache, expirationQueue, mutex, now,
                   tval, entry, evicted, replaced, lastStore, storeOrder>>
    /\ UNCHANGED <<statVars, httpVars, parseVars, pruneVars, call2Vars>>

\* Store(n, v) from Lock to sc.cache[name] = entry (lines 85-105), run by
\* thread t.  A nil expirationQueue makes Front() panic after the delete; an
\* empty list at capacity makes elem.Value panic; the deferred Unlock runs.
storeBody(t, c, n, v) ==
    LET gc == garbageCollectExpired(cache, expirationQueue)
        rp == storeReplace(gc.cache, gc.queue, n)
        ev == storeEvict(rp.cache, rp.queue)
        e == newCacheEntry(n, v)
        panics == \/ QueueIsNil /\ n \in DOMAIN gc.cache
                  \/ storeAtCapacity(rp.cache) /\ rp.queue = << >>
    IN IF panics
       THEN /\ cache' = rp.cache
            /\ expirationQueue' = rp.queue
            /\ storeOrder' = SeqFilter(storeOrder, DOMAIN rp.cache)
            /\ pc' = [pc EXCEPT ![t] = "idle"]
            /\ ret' = Returned(t, c, n, "panic", NilEntries, NoError, FALSE)
            /\ lastStore' = NoStore
            /\ call' = [call EXCEPT ![t] = "none"]
            /\ tname' = [tname EXCEPT ![t] = ""]
            /\ tval' = [tval EXCEPT ![t] = NilEntries]
            /\ raced' = [raced EXCEPT ![t] = FALSE]
            /\ UNCHANGED <<mutex, entry, evicted, replaced>>
       ELSE /\ cache' = MapPut(ev.cache, n, e)
            /\ expirationQueue' = ev.queue
            /\ storeOrder' = SeqFilter(storeOrder, DOMAIN ev.cache)
            /\ entry' = [entry EXCEPT ![t] = e]
            /\ pc' = [pc EXCEPT ![t] = "StorePush"]
            /\ call' = [call EXCEPT ![t] = c]
            /\ tname' = [tname EXCEPT ![t] = n]
            /\ tval' = [tval EXCEPT ![t] = v]
            /\ mutex' = t
            /\ lastStore' = [name |-> n, at |-> now, val |-> v]
            /\ evicted' = [evicted EXCEPT ![t] =
                              IF storeAtCapacity(rp.cache) THEN Head(rp.queue).name ELSE ""]
            /\ replaced' = [replaced EXCEPT ![t] = n \in DOMAIN gc.cache]
            /\ ret' = NoRet
            /\ UNCHANGED raced

\* the Store called by cacheResolver.Resolve after the base resolver returned
Store(t) ==
    /\ pc[t] = "Store"
    /\ mutex = NoThread
    /\ storeBody(t, "Resolve", tname[t], tval[t])
    /\ UNCHANGED <<size, expireAfter, now>>
    /\ UNCHANGED <<statVars, httpVars, parseVars, pruneVars, call2Vars>>

\* ExpiringEntriesCache.Store(n, v) called directly
CallStore(t, n, v) ==
    /\ pc[t] = "idle"
    /\ mutex = NoThread
    /\ storeBody(t, "Store", n, v)
    /\ UNCHANGED <<size, expireAfter, now>>
    /\ UNCHANGED <<statVars, httpVars, parseVars, pruneVars, call2Vars>>

\* mutex state after the deferred Unlock of Store
StoreUnlock(t) == NoThread

\* sc.expirationQueue.PushBack(&entry) (line 106) and the deferred Unlock;
\* PushBack on a nil list panics
StorePushBack(t) ==
    /\ pc[t] = "StorePush"
    /\ IF QueueIsNil
       THEN /\ ret' = Returned(t, call[t], tname[t], "panic", NilEntries, NoError, FALSE)
            /\ lastStore' = NoStore
            /\ raced' = [raced EXCEPT ![t] = FALSE]
            /\ UNCHANGED <<expirationQueue, storeOrder>>
       ELSE /\ expirationQueue' = listPushBack(expirationQueue, entry[t])
            /\ ret' = [Returned(t, call[t], tname[t], "stored", tval[t], NoError, raced[t])
                         EXCEPT !.evicted = evicted[t], !.replaced = replaced[t]]
            /\ lastStore' = lastStore
            /\ storeOrder' = Append(storeOrder, tname[t])
            /\ raced' = [u \in Threads |->
                           IF u = t THEN FALSE
                           ELSE raced[u] \/ (/\ call[t] = "Resolve"
                                             /\ pc[u] \in {"base", "Store"}
                                             /\ tname[u] = tname[t])]
    /\ pc' = [pc EXCEPT ![t] = "idle"]
    /\ call' = [call EXCEPT ![t] = "none"]
    /\ tname' = [tname EXCEPT ![t] = ""]
    /\ tval' = [tval EXCEPT ![t] = NilEntries]
    /\ entry' = [entry EXCEPT ![t] = NoEntry]
    /\ evicted' = [evicted EXCEPT ![t] = ""]
    /\ replaced' = [replaced EXCEPT ![t] = FALSE]
    /\ mutex' = StoreUnlock(t)
    /\ UNCHANGED <<size, expireAfter, cache, now>>
    /\ UNCHANGED <<statVars, httpVars, parseVars, pruneVars, call2Vars>>

CacheNext ==
    \/ Tick
    \/ \E t \in Threads, n \in Names : Lookup(t, n)
    \/ \E t \in Threads, n \in Names : Resolve(t, n)
    \/ \E t \in Threads : BaseResolveOK(t, EntriesOf(t))
    \/ \E t \in Threads, e \in Errors : BaseResolveErr(t, e)
    \/ \E t \in Threads : Store(t)
    \/ \E t \in Threads, n \in Names : CallStore(t, n, EntriesOf(t))
    \/ \E t \in Threads : StorePushBack(t)


(***************************************************************************)
(* httpResolver: Resolve and the recursion of resolveEntries, as a stack   *)
(* of frames.  Names are paths, written as tuples of their components.     *)
(***************************************************************************)
MaxArgs == 2            \* args of the namespace entry of a document
MaxDepth == 4           \* frames on the stack (more than there are names)
MaxEntries == 3         \* entries of a parsed document

HNames == {<<"x">>, <<"x", "y">>, <<"z">>}
LeafNames == {<<"z">>}  \* names whose document is explored without a namespace tag
NoName == << >>
CallbackKinds == {"default", "Recurse", "Ignore", "Pass"}
Factories == {"default", "PassEntries"}
GetErrors == {"e404"}

\* no error, and the error of a failed discovery of n: it names the endpoint
NilError == [kind |-> "nil", name |-> NoName]

discoveryError(e, n) == [kind |-> e, name |-> n]


\* scope.Contains(name): name is the scope or lies below it; the empty
\* namespace contains no name
Contains(scp, name) ==
    /\ Len(scp) >= 1
    /\ Len(scp) <= Len(name)
    /\ SubSeq(name, 1, Len(scp)) = scp

\* a default callback that recurses into every extension
defaultNSResolveCallback_Recurse(name, namespace) == "Recurse"

\* the NSResolveCallback that NewHTTPResolver installs when none is given
defaultNSResolveCallback(name, namespace) ==
    IF ~Contains(namespace, name) THEN "Ignore" ELSE "Recurse"

\* config.NSResolveCallback(name, namespace): the default one, or one that
\* recurses into the extensions containing name and passes the others, or
\* one that gives the same answer for every extension
NSResolveCallback(name, namespace) ==
    IF config.callback = "default"
    THEN defaultNSResolveCallback(name, namespace)
    ELSE IF config.callback = "PassOutside"
    THEN IF Contains(namespace, name) THEN "Recurse" ELSE "Pass"
    ELSE config.callback

\* argument lists of a docker-namespace tag
RECURSIVE SeqsUpTo(_, _)
SeqsUpTo(S, k) ==
    IF k = 0 THEN {<< >>}
    ELSE LET shorter == SeqsUpTo(S, k - 1)
         IN shorter \cup {Append(q, x) : q \in {r \in shorter : Len(r) = k - 1}, x \in S}

pullEntry(n) == [scope |-> n, action |-> "pull", args |-> <<n>>]

namespaceEntry(n, args) == [scope |-> n, action |-> "namespace", args |-> args]

\* results of Client.Get + parseHTMLHead for name n: a failure (of the Get, of
\* the status check, of the parse or of parseScope of an arg), or entries with
\* the document's scope: one pull entry, and possibly a namespace entry
Documents(n) ==
    {[err |-> discoveryError(e, n), entries |-> << >>] : e \in GetErrors}
    \cup {[err |-> NilError, entries |-> <<pullEntry(n)>>]}
    \cup {[err |-> NilError, entries |-> <<pullEntry(n), namespaceEntry(n, a)>>] :
             a \in IF n \in LeafNames THEN {} ELSE SeqsUpTo(HNames, MaxArgs)}

\* Entries.Join: the entries of a followed by those of b that a lacks
RECURSIVE Join(_, _)
Join(a, b) ==
    IF b = << >> THEN a
    ELSE IF \E i \in 1..Len(a) : a[i] = Head(b)
         THEN Join(a, Tail(b))
         ELSE Join(Append(a, Head(b)), Tail(b))

\* Entries.Remove: es without the first entry equal to e
Remove(es, e) ==
    IF \E i \in 1..Len(es) : es[i] = e
    THEN LET j == CHOOSE i \in 1..Len(es) : es[i] = e /\ \A k \in 1..(i - 1) : es[k] # e
         IN SubSeq(es, 1, j - 1) \o SubSeq(es, j + 1, Len(es))
    ELSE es

RemoveArgs(args, toRemove) == SelectSeq(args, LAMBDA a : a \notin toRemove)

\* a walk that keeps no record of the names it visited
skipVisited_Never(vis, arg) == FALSE

\* is arg left out of the extensions because it was visited already
skipVisited(vis, arg) == arg \in vis

\* a switch that follows passed extensions as well
recursesInto_AlsoPass(action) == action \in {"Recurse", "Pass"}

\* lines 329-331: the callback's answer puts the arg among the extensions
recursesInto(action) == action = "Recurse"

\* a resolver whose calls share one visited map
ownVisited_Shared(mine, others) == mine \cup others

\* Resolve line 380: each call makes its own visited map
ownVisited(mine, others) == mine

\* a loop that consults the callback for every arg, the name included
consulted_Always(arg, name) == TRUE

\* line 323, if arg != name: the args the loop parses as a scope and
\* consults the callback for
consulted(arg, name) == arg # name

\* parseScope(arg) returns no error: the arg is not empty and has no leading
\* or trailing "/"
scopeOK(arg) == arg # << >> /\ arg[1] # "" /\ arg[Len(arg)] # ""

\* a loop that goes on to the callback whatever parseScope returned
argRejected_Never(arg) == FALSE

\* lines 324-327: scope, err := parseScope(arg); if err != nil { return err }
argRejected(arg) == ~scopeOK(arg)

\* lines 319-333 from arg j of entry i on: the positions <<entry, arg>> of
\* the args NSResolveCallback is called with, in the order of the calls, and
\* whether (and in which entry) parseScope failed and ended the loop
RECURSIVE callbackCalls(_, _, _, _)
callbackCalls(parsed, name, i, j) ==
    IF i > Len(parsed) THEN [calls |-> << >>, err |-> FALSE, at |-> 0]
    ELSE IF parsed[i].action # "namespace" \/ j > Len(parsed[i].args)
    THEN callbackCalls(parsed, name, i + 1, 1)
    ELSE IF ~consulted(parsed[i].args[j], name)
    THEN callbackCalls(parsed, name, i, j + 1)
    ELSE IF argRejected(parsed[i].args[j])
    THEN [calls |-> << >>, err |-> TRUE, at |-> i]
    ELSE LET rest == callbackCalls(parsed, name, i, j + 1)
         IN [rest EXCEPT !.calls = << <<i, j>> >> \o @]

\* lines 322-339 for one namespace entry: the args (other than name) for
\* which the callback answers Recurse and that are not visited, in the order
\* of the args
RECURSIVE collectExtensions(_, _, _, _)
collectExtensions(args, name, vis, i) ==
    IF i > Len(args) THEN << >>
    ELSE LET rest == collectExtensions(args, name, vis, i + 1)
         IN IF /\ consulted(args[i], name)
               /\ recursesInto(NSResolveCallback(name, args[i]))
               /\ ~skipVisited(vis, args[i])
            THEN <<args[i]>> \o rest
            ELSE rest

\* a pass over the args that marks none for removal
argsToRemove_None(args, name) == {}

\* the args (other than name) for which the callback answers Ignore
argsToRemove(args, name) ==
    {args[i] : i \in {j \in 1..Len(args) :
                        /\ consulted(args[j], name)
                        /\ NSResolveCallback(name, args[j]) = "Ignore"}}

\* lines 319-359: the parsed entries after the args for which the callback
\* answers Ignore are removed from the namespace entry, and the namespace
\* entry itself when no arg is left and the callback answers Ignore for ""
pruneEntries(parsed, name) ==
    LET hasNS == Len(parsed) = 2
        args == IF hasNS THEN parsed[2].args ELSE << >>
        newArgs == RemoveArgs(args, argsToRemove(args, name))
        pruned == IF hasNS
                  THEN <<parsed[1], namespaceEntry(parsed[2].scope, newArgs)>>
                  ELSE parsed
    IN IF /\ hasNS
          /\ Len(newArgs) < 1
          /\ NSResolveCallback(name, NoName) = "Ignore"
       THEN Remove(pruned, pruned[2])
       ELSE pruned

HInitWith(I, C, F) ==
    /\ config \in [ignoreErrors : I, callback : C, factory : F]
    /\ hname = NoName
    /\ docs = << >>
    /\ hstate = "idle"
    /\ stack = << >>
    /\ acc = << >>
    /\ visited = {}
    /\ herr = NilError
    /\ hret = [entries |-> << >>, err |-> NilError]
    /\ gets = [n \in HNames |-> 0]

\* httpResolver.Resolve(name): NewEntries, an empty visited map, and the
\* call of resolveEntries
HResolve(name) ==
    /\ hstate = "idle"
    /\ hstate' = "running"
    /\ hname' = name
    /\ acc' = << >>
    /\ visited' = {}
    /\ stack' = <<[name |-> name, phase |-> "get", entries |-> << >>, extensions |-> << >>]>>
    /\ UNCHANGED <<config, docs, herr, hret, gets>>
    /\ UNCHANGED <<statVars, cacheVars, parseVars, pruneVars, call2Vars>>

Top == stack[Len(stack)]

Pop == SubSeq(stack, 1, Len(stack) - 1)

\* a walk that records no name as visited
markVisited_Never(vis, name) == vis

\* line 358: visited[name] = struct{}{}
markVisited(vis, name) == vis \cup {name}

\* resolveEntries lines 301-361 for the innermost frame: Get, parse, the
\* callback for each arg of the namespace entry, pruning, visited[name].
\* doc is what the endpoint serves.
HGet(doc) ==
    /\ hstate = "running"
    /\ herr = NilError
    /\ stack # << >>
    /\ Top.phase = "get"
    /\ LET name == Top.name IN
       /\ IF name \in DOMAIN docs THEN doc = docs[name] ELSE doc \in Documents(name)
       /\ docs' = MapPut(docs, name, doc)
       /\ gets' = [gets EXCEPT ![name] = @ + 1]
       /\ IF doc.err # NilError
          THEN /\ herr' = doc.err
               /\ stack' = Pop
               /\ UNCHANGED visited
          ELSE LET hasNS == Len(doc.entries) = 2
                   args == IF hasNS THEN doc.entries[2].args ELSE << >>
                   entries == pruneEntries(doc.entries, name)
               IN /\ stack' = [stack EXCEPT ![Len(stack)] =
                                  [name |-> name, phase |-> "walk", entries |-> entries,
                                   extensions |-> collectExtensions(
                                                    args, name,
                                                    ownVisited(visited, visited2), 1)]]
                  /\ visited' = markVisited(visited, name)
                  /\ herr' = NilError
    /\ UNCHANGED <<config, hname, hstate, acc, hret>>
    /\ UNCHANGED <<statVars, cacheVars, parseVars, pruneVars, call2Vars>>

\* line 363: the next extension is resolved in a new frame
HRecurse ==
    /\ hstate = "running"
    /\ herr = NilError
    /\ stack # << >>
    /\ Top.phase = "walk"
    /\ Top.extensions # << >>
    /\ Len(stack) < MaxDepth
    /\ stack' = Append([stack EXCEPT ![Len(stack)].extensions = Tail(@)],
                       [name |-> Head(Top.extensions), phase |-> "get",
                        entries |-> << >>, extensions |-> << >>])
    /\ UNCHANGED <<config, hname, docs, hstate, acc, visited, herr, hret, gets>>
    /\ UNCHANGED <<statVars, cacheVars, parseVars, pruneVars, call2Vars>>

\* a resolver that gives up at the first failed extension, whatever the
\* configuration
IgnoreNSDiscoveryErrors_Never == FALSE

\* a resolver that skips every failed extension, whatever the configuration
IgnoreNSDiscoveryErrors_Always == TRUE

\* hr.config.IgnoreNSDiscoveryErrors
IgnoreNSDiscoveryErrors == config.ignoreErrors

\* a failing frame that joins what it has collected into its caller's entries
returnErr_Leak(s) ==
    IF Len(s) >= 2
    THEN [SubSeq(s, 1, Len(s) - 1) EXCEPT ![Len(s) - 1].entries = Join(@, s[Len(s)].entries)]
    ELSE SubSeq(s, 1, Len(s) - 1)

\* line 368, return err: the frame ends and *es was not written
returnErr(s) == SubSeq(s, 1, Len(s) - 1)

\* lines 363-369: the inner resolveEntries returned an error
HExtensionFailed ==
    /\ hstate = "running"
    /\ herr # NilError
    /\ stack # << >>
    /\ IF IgnoreNSDiscoveryErrors
       THEN /\ herr' = NilError
            /\ UNCHANGED stack
       ELSE /\ herr' = herr
            /\ stack' = returnErr(stack)
    /\ UNCHANGED <<config, hname, docs, hstate, acc, visited, hret, gets>>
    /\ UNCHANGED <<statVars, cacheVars, parseVars, pruneVars, call2Vars>>

\* a return that leaves the caller's entries as they were
mergeInto_Keep(es, entries) == es

\* a return that overwrites the caller's entries without joining
mergeInto_Overwrite(es, entries) == entries

\* entries, err = es.Join(entries); *es = *entries
mergeInto(es, entries) == Join(es, entries)

\* lines 371-375: no extension is left: es.Join(entries), *es = *entries
HJoin ==
    /\ hstate = "running"
    /\ herr = NilError
    /\ stack # << >>
    /\ Top.phase = "walk"
    /\ Top.extensions = << >>
    /\ IF Len(stack) = 1
       THEN /\ acc' = mergeInto(acc, Top.entries)
            /\ stack' = Pop
       ELSE /\ stack' = [Pop EXCEPT ![Len(stack) - 1].entries = mergeInto(@, Top.entries)]
            /\ UNCHANGED acc
    /\ UNCHANGED <<config, hname, docs, hstate, visited, herr, hret, gets>>
    /\ UNCHANGED <<statVars, cacheVars, parseVars, pruneVars, call2Vars>>

\* Resolve lines 380-383: resolveEntries returned to Resolve
HReturn ==
    /\ hstate = "running"
    /\ stack = << >>
    /\ hstate' = "done"
    /\ hret' = IF herr # NilError
               THEN [entries |-> << >>, err |-> herr]
               ELSE [entries |-> acc, err |-> NilError]
    /\ herr' = NilError
    /\ UNCHANGED <<config, hname, docs, stack, acc, visited, gets>>
    /\ UNCHANGED <<statVars, cacheVars, parseVars, pruneVars, call2Vars>>

HNext ==
    \/ \E name \in HNames : HResolve(name)
    \/ \E doc \in (IF stack # << >> /\ Top.phase = "get"
                   THEN Documents(Top.name) ELSE {}) : HGet(doc)
    \/ HRecurse
    \/ HExtensionFailed
    \/ HJoin
    \/ HReturn

(***************************************************************************)
(* A second Resolve call running concurrently on the same httpResolver:    *)
(* the steps of the first one, on the locals of the second.                *)
(***************************************************************************)
H2InitWith(S) ==
    /\ hname2 = NoName
    /\ hstate2 \in S
    /\ stack2 = << >>
    /\ acc2 = << >>
    /\ visited2 = {}
    /\ herr2 = NilError
    /\ hret2 = [entries |-> << >>, err |-> NilError]

\* httpResolver.Resolve(name): NewEntries, an empty visited map, and the
\* call of resolveEntries
H2Resolve(name) ==
    /\ hstate2 = "idle"
    /\ hstate2' = "running"
    /\ hname2' = name
    /\ acc2' = << >>
    /\ visited2' = {}
    /\ stack2' = <<[name |-> name, phase |-> "get", entries |-> << >>, extensions |-> << >>]>>
    /\ UNCHANGED <<docs, herr2, hret2>>
    /\ UNCHANGED <<statVars, cacheVars, parseVars, pruneVars, config, gets,
                   hname, hstate, stack, acc, visited, herr, hret>>

\* resolveEntries lines 301-361 for the innermost frame: Get, parse, the
\* callback for each arg of the namespace entry, pruning, visited[name].
\* doc is what the endpoint serves.
H2Get(doc) ==
    /\ hstate2 = "running"
    /\ herr2 = NilError
    /\ stack2 # << >>
    /\ stack2[Len(stack2)].phase = "get"
    /\ LET name == stack2[Len(stack2)].name IN
       /\ IF name \in DOMAIN docs THEN doc = docs[name] ELSE doc \in Documents(name)
       /\ docs' = MapPut(docs, name, doc)
       /\ IF doc.err # NilError
          THEN /\ herr2' = doc.err
               /\ stack2' = SubSeq(stack2, 1, Len(stack2) - 1)
               /\ UNCHANGED visited2
          ELSE LET hasNS == Len(doc.entries) = 2
                   args == IF hasNS THEN doc.entries[2].args ELSE << >>
                   entries == pruneEntries(doc.entries, name)
               IN /\ stack2' = [stack2 EXCEPT ![Len(stack2)] =
                                  [name |-> name, phase |-> "walk", entries |-> entries,
                                   extensions |-> collectExtensions(
                                                    args, name,
                                                    ownVisited(visited2, visited), 1)]]
                  /\ visited2' = markVisited(visited2, name)
                  /\ herr2' = NilError
    /\ UNCHANGED <<hname2, hstate2, acc2, hret2>>
    /\ UNCHANGED <<statVars, cacheVars, parseVars, pruneVars, config, gets,
                   hname, hstate, stack, acc, visited, herr, hret>>

\* line 363: the next extension is resolved in a new frame
H2Recurse ==
    /\ hstate2 = "running"
    /\ herr2 = NilError
    /\ stack2 # << >>
    /\ stack2[Len(stack2)].phase = "walk"
    /\ stack2[Len(stack2)].extensions # << >>
    /\ Len(stack2) < MaxDepth
    /\ stack2' = Append([stack2 EXCEPT ![Len(stack2)].extensions = Tail(@)],
                       [name |-> Head(stack2[Len(stack2)].extensions), phase |-> "get",
                        entries |-> << >>, extensions |-> << >>])
    /\ UNCHANGED <<hname2, docs, hstate2, acc2, visited2, herr2, hret2>>
    /\ UNCHANGED <<statVars, cacheVars, parseVars, pruneVars, config, gets,
                   hname, hstate, stack, acc, visited, herr, hret>>

\* lines 363-369: the inner resolveEntries returned an error
H2ExtensionFailed ==
    /\ hstate2 = "running"
    /\ herr2 # NilError
    /\ stack2 # << >>
    /\ IF IgnoreNSDiscoveryErrors
       THEN /\ herr2' = NilError
            /\ UNCHANGED stack2
       ELSE /\ herr2' = herr2
            /\ stack2' = SubSeq(stack2, 1, Len(stack2) - 1)
    /\ UNCHANGED <<hname2, docs, hstate2, acc2, visited2, hret2>>
    /\ UNCHANGED <<statVars, cacheVars, parseVars, pruneVars, config, gets,
                   hname, hstate, stack, acc, visited, herr, hret>>

\* lines 371-375: no extension is left: es.Join(entries), *es = *entries
H2Join ==
    /\ hstate2 = "running"
    /\ herr2 = NilError
    /\ stack2 # << >>
    /\ stack2[Len(stack2)].phase = "walk"
    /\ stack2[Len(stack2)].extensions = << >>
    /\ IF Len(stack2) = 1
       THEN /\ acc2' = mergeInto(acc2, stack2[Len(stack2)].entries)
            /\ stack2' = SubSeq(stack2, 1, Len(stack2) - 1)
       ELSE /\ stack2' = [SubSeq(stack2, 1, Len(stack2) - 1) EXCEPT
                              ![Len(stack2) - 1].entries =
                                  mergeInto(@, stack2[Len(stack2)].entries)]
            /\ UNCHANGED acc2
    /\ UNCHANGED <<hname2, docs, hstate2, visited2, herr2, hret2>>
    /\ UNCHANGED <<statVars, cacheVars, parseVars, pruneVars, config, gets,
                   hname, hstate, stack, acc, visited, herr, hret>>

\* Resolve lines 380-383: resolveEntries returned to Resolve
H2Return ==
    /\ hstate2 = "running"
    /\ stack2 = << >>
    /\ hstate2' = "done"
    /\ hret2' = IF herr2 # NilError
               THEN [entries |-> << >>, err |-> herr2]
               ELSE [entries |-> acc2, err |-> NilError]
    /\ herr2' = NilError
    /\ UNCHANGED <<hname2, docs, stack2, acc2, visited2>>
    /\ UNCHANGED <<statVars, cacheVars, parseVars, pruneVars, config, gets,
                   hname, hstate, stack, acc, visited, herr, hret>>

ConcurrentNext ==
    \/ \E name \in HNames : HResolve(name)
    \/ \E doc \in (IF stack # << >> /\ Top.phase = "get"
                   THEN Documents(Top.name) ELSE {}) : HGet(doc)
    \/ HRecurse
    \/ HExtensionFailed
    \/ HJoin
    \/ HReturn
    \/ \E name \in HNames : H2Resolve(name)
    \/ \E doc \in (IF stack2 # << >> /\ stack2[Len(stack2)].phase = "get"
                   THEN Documents(stack2[Len(stack2)].name) ELSE {}) : H2Get(doc)
    \/ H2Recurse
    \/ H2ExtensionFailed
    \/ H2Join
    \/ H2Return

(***************************************************************************)
(* The discovery document: Client.Get, parseHTMLHead, parseHTMLMetaTag.    *)
(* Names, scopes and words of a content attribute are strings here.        *)
(***************************************************************************)
MaxTokens == 3

PNames == {"n", "n/"}

\* strings that parseScope rejects: empty, or a leading or trailing "/"
InvalidScopes == {"", "p/", "n/"}

StatusOK == 200

Responses == [getErr : BOOLEAN, status : {StatusOK, 204, 404}]

NoParseError == [kind |-> "nil", status |-> 0]

OKResponse == [getErr |-> FALSE, status |-> StatusOK]

parseError(k) == [kind |-> k, status |-> 0]

\* fmt.Errorf("discovery endpoint %q replied with: %s", name, resp.Status)
statusError(s) == [kind |-> "discovery endpoint replied with", status |-> s]

htmlMetaTagInvalid == "invalid"

htmlMetaTagScope == "docker-scope"

htmlMetaTagNamespace == "docker-namespace"

MetaTagNames == {htmlMetaTagScope, "docker-registry-pull", "docker-registry-push",
                 "docker-registry", "docker-index", htmlMetaTagNamespace}

\* values of a content attribute: words and the whitespace runs around them
Contents == { << >>,
              <<" ", "p", " ">>,
              <<"p/">>,
              <<"p", " ", " ", "u">> }

\* attributes of a meta tag
Attrs ==
    {[key |-> "name", name |-> n, content |-> << >>] : n \in MetaTagNames \cup {"description"}}
    \cup {[key |-> "content", name |-> "", content |-> c] : c \in Contents}
    \cup {[key |-> "charset", name |-> "", content |-> << >>]}

\* attribute lists of a meta tag: none, or attributes with different keys in
\* either order, or one name attribute twice
MetaTags ==
    {<< >>} \cup {<<a>> : a \in Attrs}
    \cup {q \in Attrs \X Attrs : q[1].key # q[2].key \/ (q[1].key = "name" /\ q[1] = q[2])}

\* what the tokenizer hands out: start (or self-closing) tags, end tags,
\* text and comments, and the error token at the end of input or at a
\* read error
Tokens ==
    {[type |-> "StartTag", tag |-> "meta", attrs |-> a] : a \in MetaTags}
    \cup {[type |-> "StartTag", tag |-> t, attrs |-> << >>] : t \in {"head", "div"}}
    \cup {[type |-> "EndTag", tag |-> t, attrs |-> << >>] : t \in {"head", "meta", "div"}}
    \cup {[type |-> "Text", tag |-> "", attrs |-> << >>]}
    \cup {[type |-> "Error", tag |-> t, attrs |-> << >>] : t \in {"EOF", "unexpected EOF"}}

\* parseScope, with the scope unchanged when it is accepted
parseScope(s) ==
    IF s \in InvalidScopes
    THEN [scp |-> "", err |-> parseError("invalid scope")]
    ELSE [scp |-> s, err |-> NoParseError]

parseHTMLMetaTagName(name) ==
    IF name \in MetaTagNames THEN name ELSE htmlMetaTagInvalid

\* a docker-registry tag that stands for pull only
ToActions_PullOnly(m) ==
    CASE m = "docker-registry-pull" -> <<"pull">>
      [] m = "docker-registry-push" -> <<"push">>
      [] m = "docker-index" -> <<"index">>
      [] m = htmlMetaTagNamespace -> <<"namespace">>
      [] m = "docker-registry" -> <<"pull">>
      [] OTHER -> << >>

ToActions(m) ==
    CASE m = "docker-registry-pull" -> <<"pull">>
      [] m = "docker-registry-push" -> <<"push">>
      [] m = "docker-index" -> <<"index">>
      [] m = htmlMetaTagNamespace -> <<"namespace">>
      [] m = "docker-registry" -> <<"pull", "push">>
      [] OTHER -> << >>

\* reWhitespace.Split(strings.TrimSpace(val), -1), and no arg for a blank value
splitContent(val) == SelectSeq(val, LAMBDA w : w # " ")

\* the locals of parseHTMLMetaTag before the first attribute
NoMetaTag ==
    [tag |-> htmlMetaTagInvalid, entries |-> << >>, args |-> << >>, nilArgs |-> TRUE,
     err |-> NoParseError]

\* the loop over the attributes of a meta tag, from the i-th on
RECURSIVE metaAttrs(_, _, _)
metaAttrs(attrs, i, st) ==
    IF i > Len(attrs) \/ st.err # NoParseError THEN st
    ELSE LET a == attrs[i]
             tag == parseHTMLMetaTagName(a.name)
             actions == ToActions(tag)
         IN metaAttrs(attrs, i + 1,
              CASE a.key = "name" ->
                     IF st.tag # htmlMetaTagInvalid
                     THEN [st EXCEPT !.err = parseError("expected just one name attribute")]
                     ELSE IF tag = htmlMetaTagInvalid
                     THEN [st EXCEPT !.err = parseError("unsupported meta tag name")]
                     ELSE [st EXCEPT !.tag = tag,
                                     !.entries = [k \in 1..Len(actions) |->
                                         [scope |-> "", action |-> actions[k], args |-> << >>]]]
                [] a.key = "content" ->
                     [st EXCEPT !.args = splitContent(a.content), !.nilArgs = FALSE]
                [] OTHER ->
                     [st EXCEPT !.err = parseError("unrecognized meta tag attribute")])

\* what parseHTMLMetaTag returns when no tag was parsed
NoMeta == [tag |-> htmlMetaTagInvalid, scp |-> "", entries |-> << >>, err |-> NoParseError]

metaFailed(tag, e) == [tag |-> tag, scp |-> "", entries |-> << >>, err |-> e]

\* parseHTMLMetaTag for a meta tag with these attributes: the scope of a
\* docker-scope tag, or the entries of another tag, or an error
parseHTMLMetaTag(attrs) ==
    LET st == metaAttrs(attrs, 1, NoMetaTag)
        scp == parseScope(st.args[1])
    IN IF st.err # NoParseError THEN metaFailed(st.tag, st.err)
       ELSE IF st.tag = htmlMetaTagInvalid
       THEN metaFailed(st.tag, parseError("meta tag without name attribute"))
       ELSE IF st.tag = htmlMetaTagScope
       THEN IF Len(st.args) # 1
            THEN metaFailed(st.tag, parseError("unexpected arguments for scope meta tag"))
            ELSE IF scp.err # NoParseError THEN metaFailed(st.tag, scp.err)
            ELSE [tag |-> st.tag, scp |-> scp.scp, entries |-> << >>, err |-> NoParseError]
       ELSE IF st.nilArgs /\ st.tag # htmlMetaTagNamespace
       THEN metaFailed(st.tag, parseError("meta tag is missing content"))
       ELSE [tag |-> st.tag, scp |-> "",
             entries |-> [k \in 1..Len(st.entries) |-> [st.entries[k] EXCEPT !.args = st.args]],
             err |-> NoParseError]

\* the sort key of Entries for entries of one scope: the rank of the action
\* (namespace, index, pull, push), then the args joined by a blank
sortKey(e) ==
    4 * (CASE e.action = "namespace" -> 0
           [] e.action = "index" -> 1
           [] e.action = "pull" -> 2
           [] OTHER -> 3)
    + (CASE e.args = << >> -> 0
         [] e.args = <<"p">> -> 1
         [] e.args = <<"p", "u">> -> 2
         [] OTHER -> 3)

\* Entries.Add: nothing for an entry already present, otherwise the entry
\* inserted at its place in the sort order
Add(es, e) ==
    IF \E i \in 1..Len(es) : es[i] = e THEN es
    ELSE SelectSeq(es, LAMBDA x : sortKey(x) < sortKey(e)) \o <<e>>
         \o SelectSeq(es, LAMBDA x : sortKey(x) > sortKey(e))

\* lines 221-225: Entries.Add for each of the new entries
RECURSIVE AddAll(_, _)
AddAll(es, new) ==
    IF new = << >> THEN es ELSE AddAll(Add(es, Head(new)), Tail(new))

\* a parser that lets a later docker-scope tag replace the scope
secondScope_Replaces(current) == FALSE

\* line 225: a scope was parsed already when this docker-scope tag is read
secondScope(current) == current # ""

\* a parser that returns no entries as a success
noEntriesFound_Never(reading, es) == FALSE

\* line 245
noEntriesFound(reading, es) == ~reading \/ Len(es) = 0

\* a parser that leaves the entries without a scope when the document has none
fallbackScope_None(name) == [scp |-> "", err |-> NoParseError]

\* lines 248-253: the requested name as the scope
fallbackScope(name) == parseScope(name)

\* a loop that sets the scope of the first entry only
withScope_FirstOnly(es, scp) ==
    [k \in 1..Len(es) |-> IF k = 1 THEN [es[k] EXCEPT !.scope = scp] ELSE es[k]]

\* lines 254-256
withScope(es, scp) == [k \in 1..Len(es) |-> [es[k] EXCEPT !.scope = scp]]

\* lines 245-257, after the loop: no entries, or the scope of every entry
finishParse(scp, reading, es, name) ==
    LET fallback == fallbackScope(name)
        final == IF scp = "" THEN fallback.scp ELSE scp
    IN IF noEntriesFound(reading, es)
       THEN [entries |-> << >>, err |-> parseError("no entries found")]
       ELSE IF scp = "" /\ fallback.err # NoParseError
       THEN [entries |-> << >>, err |-> parseError("cannot use given name as scope")]
       ELSE [entries |-> withScope(es, final), err |-> NoParseError]

PInitWith(N, R) ==
    /\ pname \in N
    /\ presp \in R
    /\ pstate = "get"
    /\ ptokens = 0
    /\ parsedScope = ""
    /\ readingMetaTags = FALSE
    /\ pentries = << >>
    /\ pmeta = NoMeta
    /\ pret = [entries |-> << >>, err |-> NoParseError]
    /\ pend = ""
    /\ pscopes = 0

\* a status check that lets every reply through
statusOK_Any(s) == TRUE

\* line 305
statusOK(s) == s = StatusOK

PFail(e) ==
    /\ pstate' = "done"
    /\ pend' = "error"
    /\ pret' = [entries |-> << >>, err |-> e]

PFinish(how) ==
    /\ pstate' = "done"
    /\ pend' = how
    /\ pret' = finishParse(parsedScope', readingMetaTags', pentries', pname)

\* resolveEntries lines 301-308: the Get and the status check; the body is
\* handed to parseHTMLHead only after both
PGet ==
    /\ pstate = "get"
    /\ IF presp.getErr THEN PFail(parseError("transport"))
       ELSE IF ~statusOK(presp.status) THEN PFail(statusError(presp.status))
       ELSE pstate' = "parsing" /\ UNCHANGED <<pret, pend>>
    /\ UNCHANGED <<presp, pname, ptokens, parsedScope, readingMetaTags, pentries, pmeta,
                   pscopes>>
    /\ UNCHANGED <<statVars, cacheVars, httpVars, pruneVars, call2Vars>>

\* one round of the parsing loop of parseHTMLHead for the token tok, with
\* lines 245-257 when the loop ends
PToken(tok) ==
    /\ pstate = "parsing"
    /\ ptokens < MaxTokens \/ (tok.type = "Error" /\ tok.tag = "EOF")
    /\ ptokens' = ptokens + 1
    /\ LET meta == parseHTMLMetaTag(tok.attrs)
           keep == UNCHANGED <<pstate, pret, pend>>
           same == UNCHANGED <<parsedScope, readingMetaTags, pentries, pmeta, pscopes>>
       IN CASE tok.type = "Error" ->
                 /\ same
                 /\ IF tok.tag = "EOF" THEN PFinish("EOF") ELSE PFail(parseError(tok.tag))
            [] tok.type = "StartTag" /\ tok.tag = "head" ->
                 /\ UNCHANGED <<parsedScope, pentries, pmeta, pscopes>>
                 /\ IF readingMetaTags
                    THEN PFail(parseError("unexpected head tag")) /\ UNCHANGED readingMetaTags
                    ELSE keep /\ readingMetaTags' = TRUE
            [] tok.type = "StartTag" /\ tok.tag = "meta" ->
                 IF tok.attrs = << >>
                 THEN same /\ PFail(parseError("meta tag empty"))
                 ELSE /\ pmeta' = meta
                      /\ pscopes' = IF meta.scp # "" THEN pscopes + 1 ELSE pscopes
                      /\ IF meta.err # NoParseError
                         THEN /\ PFail(meta.err)
                              /\ UNCHANGED <<parsedScope, readingMetaTags, pentries>>
                         ELSE IF meta.scp = ""
                         THEN /\ pentries' = AddAll(pentries, meta.entries)
                              /\ readingMetaTags' = TRUE
                              /\ keep
                              /\ UNCHANGED parsedScope
                         ELSE IF secondScope(parsedScope)
                         THEN /\ PFail(parseError("multiple scopes defined"))
                              /\ UNCHANGED <<parsedScope, readingMetaTags, pentries>>
                         ELSE /\ parsedScope' = meta.scp
                              /\ readingMetaTags' = TRUE
                              /\ keep
                              /\ UNCHANGED pentries
            [] tok.type = "StartTag" ->
                 same /\ PFail(parseError("unexpected html element"))
            [] tok.type = "EndTag" /\ tok.tag = "head" -> same /\ PFinish("</head>")
            [] tok.type = "EndTag" /\ tok.tag = "meta" -> same /\ keep
            [] tok.type = "EndTag" -> same /\ PFail(parseError("unexpected tag"))
            [] OTHER -> same /\ keep
    /\ UNCHANGED <<presp, pname>>
    /\ UNCHANGED <<statVars, cacheVars, httpVars, pruneVars, call2Vars>>

PNext ==
    \/ PGet
    \/ \E tok \in Tokens : PToken(tok)

(***************************************************************************)
(* Lines 317-356 of resolveEntries for a document with any number of       *)
(* namespace entries.                                                      *)
(***************************************************************************)
MaxTags == 2            \* entries of a document whose args are walked

\* what a docker-namespace tag may list: the name, another name, and "x/"
ArgStrings == {<<"x">>, <<"z">>, <<"x", "">>}

\* entries a document can carry under the scope n
DocEntries(n, A, S) ==
    {pullEntry(n)} \cup {namespaceEntry(n, a) : a \in SeqsUpTo(S, A)}

\* lines 319-347: every namespace entry without the args for which the
\* callback answers Ignore
pruneArgs(parsed, name) ==
    [i \in 1..Len(parsed) |->
        IF parsed[i].action = "namespace"
        THEN [parsed[i] EXCEPT !.args = RemoveArgs(@, argsToRemove(@, name))]
        ELSE parsed[i]]

\* the indices of the namespace entries left without an arg
emptyNamespaces(es) ==
    {i \in 1..Len(es) : es[i].action = "namespace" /\ Len(es[i].args) < 1}

\* lines 348-352: entriesToRemove, as the indices its pointers refer to, in
\* the order of the loop
RECURSIVE entriesToRemove(_, _, _)
entriesToRemove(es, name, i) ==
    IF i > Len(es) THEN << >>
    ELSE IF i \in emptyNamespaces(es) /\ NSResolveCallback(name, NoName) = "Ignore"
         THEN <<i>> \o entriesToRemove(es, name, i + 1)
         ELSE entriesToRemove(es, name, i + 1)

\* lines 354-356: entries.Remove(*entryPtr) for each pointer. array is the
\* array the pointers refer to and es the entries. Remove either moves the
\* later entries down within that array, leaving its last slot as it was,
\* or builds the remaining entries elsewhere
RECURSIVE removeLoop(_, _, _, _)
removeLoop(array, es, ptrs, inPlace) ==
    IF ptrs = << >> THEN es
    ELSE LET rest == Remove(es, array[Head(ptrs)])
         IN removeLoop(IF inPlace
                       THEN rest \o SubSeq(array, Len(rest) + 1, Len(array))
                       ELSE array,
                       rest, Tail(ptrs), inPlace)

QInitWith(N, L, A, S) ==
    /\ qname \in N
    /\ qparsed \in {q \in SeqsUpTo(DocEntries(qname, A, S), L) :
                        \A i, j \in 1..Len(q) : i # j => q[i] # q[j]}
    /\ qstate = "parsed"
    /\ qentries = << >>
    /\ qcalls = 0
    /\ qargcalls = << >>
    /\ qexts = << >>

\* lines 317-356 for the parsed entries of qname, the document Resolve was
\* called for (nothing is visited yet).  An arg that parseScope rejects ends
\* resolveEntries with the error: no entries, no extensions.
QPrune(inPlace) ==
    /\ qstate = "parsed"
    /\ LET es == pruneArgs(qparsed, qname)
           walk == callbackCalls(qparsed, qname, 1, 1)
       IN /\ qargcalls' = walk.calls
          /\ IF walk.err
             THEN /\ qstate' = "failed"
                  /\ qcalls' = Cardinality({i \in emptyNamespaces(es) : i < walk.at})
                  /\ qexts' = << >>
                  /\ qentries' = << >>
             ELSE /\ qstate' = "pruned"
                  /\ qcalls' = Cardinality(emptyNamespaces(es))
                  /\ qexts' = [i \in 1..Len(qparsed) |->
                                  IF qparsed[i].action = "namespace"
                                  THEN collectExtensions(qparsed[i].args, qname, {}, 1)
                                  ELSE << >>]
                  /\ qentries' = removeLoop(es, es, entriesToRemove(es, qname, 1), inPlace)
    /\ UNCHANGED <<qname, qparsed>>
    /\ UNCHANGED <<statVars, cacheVars, httpVars, parseVars, call2Vars>>

QNext == \E inPlace \in BOOLEAN : QPrune(inPlace)

(***************************************************************************)
(* The caching resolver configured by CacheResolverConfig: entriesCache    *)
(* (lookup, store) behind cacheResolver.Resolve.  It uses the variables of *)
(* the cache: size is maxEntries.                                          *)
(***************************************************************************)
MaxQueue == 3           \* nodes in the queue: store is explored while it stays within it

\* entriesCache.lookup(n) between Lock and the deferred Unlock: an entry that
\* is present and not expired is returned; one that is present and expired
\* starts the sweep of the queue head, and nil is returned
lookup(c, q, n) ==
    IF n \in DOMAIN c
    THEN IF expireAfter = 0 \/ ~Expired(c[n])
         THEN [cache |-> c, queue |-> q, entries |-> c[n].entries]
         ELSE LET gc == IF QueueIsNil THEN [cache |-> c, queue |-> q] ELSE gcLoop(c, q)
              IN [cache |-> gc.cache, queue |-> gc.queue, entries |-> NilEntries]
    ELSE [cache |-> c, queue |-> q, entries |-> NilEntries]

\* cacheResolver.Resolve(n) up to the result of cr.cache.lookup(n)
ResolveConfig(t, n) ==
    /\ pc[t] = "idle"
    /\ mutex = NoThread
    /\ LET found == lookup(cache, expirationQueue, n)
       IN /\ cache' = found.cache
          /\ expirationQueue' = found.queue
          /\ storeOrder' = SeqFilter(storeOrder, DOMAIN found.cache)
          /\ IF found.entries # NilEntries
             THEN /\ ret' = Returned(t, "Resolve", n, "hit", found.entries, NoError, FALSE)
                  /\ UNCHANGED <<pc, call, tname>>
             ELSE /\ pc' = [pc EXCEPT ![t] = "base"]
                  /\ call' = [call EXCEPT ![t] = "Resolve"]
                  /\ tname' = [tname EXCEPT ![t] = n]
                  /\ ret' = NoRet
    /\ mutex' = NoThread
    /\ UNCHANGED <<size, expireAfter, now, tval, entry, evicted, replaced, raced, lastStore>>
    /\ UNCHANGED <<statVars, httpVars, parseVars, pruneVars, call2Vars>>

\* entriesCache.store(n, v) from Lock to sc.cache[name] = entry, called by
\* cacheResolver.Resolve: at capacity the front node is unlinked and its name
\* deleted from the map; there is no sweep and no search for a prior entry of
\* n.  Front() of a nil list and elem.Value of an empty one panic.  The
\* queue of this cache can grow without bound: it is explored up to MaxQueue.
store(t) ==
    /\ pc[t] = "Store"
    /\ mutex = NoThread
    /\ Len(expirationQueue) < MaxQueue \/ storeAtCapacity(cache)
    /\ LET n == tname[t]
           ev == storeEvict(cache, expirationQueue)
           e == newCacheEntry(n, tval[t])
       IN IF storeAtCapacity(cache) /\ expirationQueue = << >>
          THEN /\ pc' = [pc EXCEPT ![t] = "idle"]
               /\ ret' = Returned(t, "Resolve", n, "panic", NilEntries, NoError, FALSE)
               /\ lastStore' = NoStore
               /\ call' = [call EXCEPT ![t] = "none"]
               /\ tname' = [tname EXCEPT ![t] = ""]
               /\ tval' = [tval EXCEPT ![t] = NilEntries]
               /\ raced' = [raced EXCEPT ![t] = FALSE]
               /\ UNCHANGED <<cache, expirationQueue, storeOrder, mutex, entry, evicted,
                              replaced>>
          ELSE /\ cache' = MapPut(ev.cache, n, e)
               /\ expirationQueue' = ev.queue
               /\ storeOrder' = SeqFilter(storeOrder, DOMAIN ev.cache)
               /\ entry' = [entry EXCEPT ![t] = e]
               /\ pc' = [pc EXCEPT ![t] = "StorePush"]
               /\ mutex' = t
               /\ lastStore' = [name |-> n, at |-> now, val |-> tval[t]]
               /\ evicted' = [evicted EXCEPT ![t] =
                                 IF storeAtCapacity(cache)
                                 THEN Head(expirationQueue).name ELSE ""]
               /\ replaced' = [replaced EXCEPT ![t] = n \in DOMAIN cache]
               /\ ret' = NoRet
               /\ UNCHANGED <<call, tname, tval, raced>>
    /\ UNCHANGED <<size, expireAfter, now>>
    /\ UNCHANGED <<statVars, httpVars, parseVars, pruneVars, call2Vars>>

\* concurrent cacheResolver.Resolve calls on the config-based resolver; the
\* PushBack and Unlock that end store are those of StorePushBack
ConfigNext ==
    \/ Tick
    \/ \E t \in Threads, n \in Names : ResolveConfig(t, n)
    \/ \E t \in Threads : BaseResolveOK(t, EntriesOf(t))
    \/ \E t \in Threads, e \in Errors : BaseResolveErr(t, e)
    \/ \E t \in Threads : store(t)
    \/ \E t \in Threads : StorePushBack(t)

(***************************************************************************)
(* cachedBlobStatter.Stat (registry/storage/cache): a descriptor cache in  *)
(* front of a backend BlobStatter, with an optional metrics tracker.       *)
(***************************************************************************)
MaxCalls == 3           \* Stat calls that are explored

Digests == {"d1", "d2"}
ErrBlobUnknown == "ErrBlobUnknown"
NoDescriptor == ""      \* the zero Descriptor

NoStat == [dgst |-> "", cacheErr |-> NoError, backend |-> FALSE, backendErr |-> NoError,
           wrote |-> FALSE, setErr |-> NoError, desc |-> NoDescriptor, err |-> NoError]

\* what cbds.cache.Stat can return for dgst: the descriptor, that the blob is
\* unknown to it, or a failure of the cache itself
cacheStatErrors(dgst) ==
    IF dgst \in descriptors THEN {NoError, "eCache"} ELSE {ErrBlobUnknown, "eCache"}

\* what cbds.backend.Stat can return for dgst
backendStatErrors(dgst) ==
    IF dgst \in blobs THEN {NoError, "eBackend"} ELSE {ErrBlobUnknown, "eBackend"}

\* a Stat that goes to the backend only when the cache does not know the blob
fallback_UnknownOnly(err) == err = ErrBlobUnknown

\* lines 45-51: if err != nil { ...; goto fallback }
fallback(err) == err # NoError

\* NewCachedBlobStatter (no tracker) or NewCachedBlobStatterWithMetrics
StatInitWith(T, B) ==
    /\ tracker \in [present : T, hits : {0}, misses : {0}]
    /\ blobs \in B
    /\ descriptors = {}
    /\ requests = 0
    /\ sret = NoStat

\* cachedBlobStatter.Stat(ctx, dgst), where cacheErr, backendErr and setErr
\* are what cache.Stat, backend.Stat and cache.SetDescriptor return when
\* they are called
Stat(dgst, cacheErr, backendErr, setErr) ==
    /\ requests < MaxCalls
    /\ cacheErr \in cacheStatErrors(dgst)
    /\ backendErr \in backendStatErrors(dgst)
    /\ requests' = requests + 1
    /\ IF fallback(cacheErr)
       THEN /\ tracker' = IF tracker.present
                          THEN [tracker EXCEPT !.misses = @ + 1] ELSE tracker
            /\ IF backendErr # NoError
               THEN /\ sret' = [NoStat EXCEPT !.dgst = dgst, !.cacheErr = cacheErr,
                                              !.backend = TRUE, !.backendErr = backendErr,
                                              !.err = backendErr]
                    /\ UNCHANGED descriptors
               ELSE /\ sret' = [NoStat EXCEPT !.dgst = dgst, !.cacheErr = cacheErr,
                                              !.backend = TRUE, !.wrote = TRUE,
                                              !.setErr = setErr, !.desc = dgst]
                    /\ descriptors' = IF setErr = NoError
                                      THEN descriptors \cup {dgst} ELSE descriptors
       ELSE /\ tracker' = IF tracker.present
                          THEN [tracker EXCEPT !.hits = @ + 1] ELSE tracker
            /\ sret' = [NoStat EXCEPT !.dgst = dgst, !.cacheErr = cacheErr, !.desc = dgst]
            /\ UNCHANGED descriptors
    /\ UNCHANGED blobs
    /\ UNCHANGED <<cacheVars, httpVars, parseVars, pruneVars, call2Vars>>

StatNext ==
    \E dgst \in Digests, cacheErr \in {NoError, ErrBlobUnknown, "eCache"},
       backendErr \in {NoError, ErrBlobUnknown, "eBackend"}, setErr \in {NoError, "eSet"} :
        Stat(dgst, cacheErr, backendErr, setErr)

(***************************************************************************)
(* Specifications.                                                         *)
(***************************************************************************)
\* NewExpiringEntriesCache with size > 0, behind NewCacheResolver
Init == CacheInitWith(Sizes, ExpireAfters) /\ HInitWith({FALSE}, {"default"}, {"default"})
    /\ PInitWith({"n"}, {OKResponse}) /\ QInitWith({NoName}, 0, 0, {})
    /\ H2InitWith({"idle"}) /\ StatInitWith({FALSE}, {{}})

\* the cache with a queue (size > 0) under concurrent Resolve, Lookup, Store
Spec == Init /\ [][CacheNext]_vars

\* the cache built with size <= 0
InitNilQueue ==
    CacheInitWith(NilSizes, ExpireAfters) /\ HInitWith({FALSE}, {"default"}, {"default"})
    /\ PInitWith({"n"}, {OKResponse}) /\ QInitWith({NoName}, 0, 0, {})
    /\ H2InitWith({"idle"}) /\ StatInitWith({FALSE}, {{}})

SpecNilQueue == InitNilQueue /\ [][CacheNext]_vars

\* one top-level httpResolver.Resolve
InitResolve == CacheInitWith({2}, {0}) /\ HInitWith(BOOLEAN, CallbackKinds, {"default"})
    /\ PInitWith({"n"}, {OKResponse}) /\ QInitWith({NoName}, 0, 0, {})
    /\ H2InitWith({"idle"}) /\ StatInitWith({FALSE}, {{}})

SpecResolve == InitResolve /\ [][HNext]_vars

\* SpecResolve, where a call that can take a step eventually takes one
SpecResolveFair == SpecResolve /\ WF_vars(HNext)

\* NewHTTPResolver with no NSResolveCallback and either ResolverFactory
InitFactory == CacheInitWith({2}, {0}) /\ HInitWith(BOOLEAN, {"default"}, Factories)
    /\ PInitWith({"n"}, {OKResponse}) /\ QInitWith({NoName}, 0, 0, {})
    /\ H2InitWith({"idle"}) /\ StatInitWith({FALSE}, {{}})

\* one top-level httpResolver.Resolve under the default callback
SpecFactory == InitFactory /\ [][HNext]_vars

\* one fetch of a discovery document and its parse, token by token
InitParse ==
    CacheInitWith({2}, {0}) /\ HInitWith({FALSE}, {"default"}, {"default"})
    /\ PInitWith(PNames, Responses) /\ QInitWith({NoName}, 0, 0, {})
    /\ H2InitWith({"idle"}) /\ StatInitWith({FALSE}, {{}})

SpecParse == InitParse /\ [][PNext]_vars


\* NewHTTPResolver with a callback that passes extensions
InitPass ==
    CacheInitWith({2}, {0}) /\ HInitWith(BOOLEAN, {"Pass", "PassOutside"}, {"default"})
    /\ PInitWith({"n"}, {OKResponse}) /\ QInitWith({NoName}, 0, 0, {})
    /\ H2InitWith({"idle"}) /\ StatInitWith({FALSE}, {{}})

\* one top-level httpResolver.Resolve under such a callback
SpecPass == InitPass /\ [][HNext]_vars

\* the pruning of one parsed document under each kind of callback
InitPrune ==
    CacheInitWith({2}, {0})
    /\ HInitWith({FALSE}, CallbackKinds \cup {"PassOutside"}, {"default"})
    /\ PInitWith({"n"}, {OKResponse}) /\ QInitWith(HNames, MaxEntries, 1, HNames)
    /\ H2InitWith({"idle"}) /\ StatInitWith({FALSE}, {{}})

SpecPrune == InitPrune /\ [][QNext]_vars

\* the callback loop over one parsed document whose namespace entries list
\* the name, another name and a string that is no scope
InitArgs ==
    CacheInitWith({2}, {0})
    /\ HInitWith(BOOLEAN, {"default", "Ignore", "Recurse"}, {"default"})
    /\ PInitWith({"n"}, {OKResponse})
    /\ QInitWith({<<"x">>}, MaxTags, MaxArgs, ArgStrings)
    /\ H2InitWith({"idle"}) /\ StatInitWith({FALSE}, {{}})

SpecArgs == InitArgs /\ [][QNext]_vars

\* two Resolve calls on one httpResolver made with the default callback
InitConcurrent ==
    CacheInitWith({2}, {0}) /\ HInitWith(BOOLEAN, {"default"}, {"default"})
    /\ PInitWith({"n"}, {OKResponse}) /\ QInitWith({NoName}, 0, 0, {})
    /\ H2InitWith({"idle"}) /\ StatInitWith({FALSE}, {{}})

\* the steps of the two calls in any interleaving
SpecConcurrent == InitConcurrent /\ [][ConcurrentNext]_vars

\* NewCacheResolver(base, &CacheResolverConfig{ExpireAfter, MaxEntries}) with
\* MaxEntries > 0
InitConfig ==
    CacheInitWith(Sizes, ExpireAfters) /\ HInitWith({FALSE}, {"default"}, {"default"})
    /\ PInitWith({"n"}, {OKResponse}) /\ QInitWith({NoName}, 0, 0, {})
    /\ H2InitWith({"idle"}) /\ StatInitWith({FALSE}, {{}})

SpecConfig == InitConfig /\ [][ConfigNext]_vars

\* a cachedBlobStatter with or without a tracker, over each set of blobs
InitStat ==
    CacheInitWith({2}, {0}) /\ HInitWith({FALSE}, {"default"}, {"default"})
    /\ PInitWith({"n"}, {OKResponse}) /\ QInitWith({NoName}, 0, 0, {})
    /\ H2InitWith({"idle"}) /\ StatInitWith(BOOLEAN, SUBSET Digests)

SpecStat == InitStat /\ [][StatNext]_vars

(***************************************************************************)
(* Properties of ExpiringEntriesCache and cacheResolver.                   *)
(***************************************************************************)

\* the step is thread t's Resolve(n) up to the result of its Lookup
ResolveStarts(t, n) ==
    /\ pc[t] = "idle"
    /\ \/ ret'.thread = t /\ ret'.call = "Resolve" /\ ret'.how = "hit" /\ ret'.name = n
       \/ pc'[t] = "base" /\ tname'[t] = n

\* the step is thread t's direct Lookup(n)
LookupRuns(t, n) ==
    /\ pc[t] = "idle"
    /\ ret'.thread = t /\ ret'.call = "Lookup" /\ ret'.name = n

\* the step is thread t's Store(n, _) up to the map write
StoreRuns(t, n) ==
    /\ pc[t] # "StorePush"
    /\ pc'[t] = "StorePush"
    /\ tname'[t] = n

\* n is cached and its TTL has not elapsed
Live(n) ==
    /\ n \in DOMAIN cache
    /\ expireAfter = 0 \/ now - cache[n].created <= expireAfter

NodesOf(q, n) == {i \in 1..Len(q) : q[i].name = n}

\* C3: a Resolve(n) that finds n cached and unexpired returns the cached
\* Entries without calling the base resolver, and the Entries a Resolve
\* returns after a miss are the ones it left in the cache under n: the second
\* of two consecutive Resolve(n) calls returns what the first stored.
C3_SecondResolveServedFromCache ==
    [][\A t \in Threads, n \in Names :
          /\ (ResolveStarts(t, n) /\ Live(n)) =>
                /\ pc'[t] = "idle"
                /\ ret' = Returned(t, "Resolve", n, "hit", cache[n].entries, NoError, FALSE)
          /\ (ret'.thread = t /\ ret'.call = "Resolve" /\ ret'.how = "stored" /\ ret'.name = n) =>
                /\ n \in DOMAIN cache'
                /\ cache'[n].entries = ret'.val
      ]_vars

\* a Resolve(n) returned a hit on what the last Store put under n
C3_Witness ==
    /\ ret.call = "Resolve"
    /\ ret.how = "hit"
    /\ lastStore.name = ret.name
    /\ lastStore.val = ret.val

\* C4: with expireAfter = tau > 0, a Lookup(k) that follows Store(k, v) with
\* no Store in between returns v when at most tau has passed since the Store
\* and absent when more has; in Resolve the absent case calls the base
\* resolver.
C4_LookupWithinTTL ==
    [][\A t \in Threads, n \in Names :
          (/\ LookupRuns(t, n) \/ ResolveStarts(t, n)
           /\ expireAfter > 0
           /\ lastStore.name = n) =>
             IF now - lastStore.at <= expireAfter
             THEN /\ ret'.thread = t
                  /\ ret'.how = "hit"
                  /\ ret'.val = lastStore.val
             ELSE /\ n \notin DOMAIN cache'
                  /\ LookupRuns(t, n) => ret'.how = "miss" /\ ret'.val = NilEntries
                  /\ ResolveStarts(t, n) => pc'[t] = "base"
      ]_vars

\* a Lookup found the key of the last Store expired
C4_Witness ==
    /\ expireAfter > 0
    /\ ret.call = "Lookup"
    /\ ret.how = "miss"
    /\ lastStore.name = ret.name
    /\ now - lastStore.at > expireAfter

\* C5: with size N > 0 and no expiry, a Store of a new key into a full cache
\* evicts exactly the key stored first among the cached ones and keeps the
\* other entries as they are; a Resolve of a name that is not cached calls
\* the base resolver.
C5_CapacityEvictsFirstStored ==
    [][\A t \in Threads, n \in Names :
          /\ (/\ StoreRuns(t, n)
              /\ size > 0
              /\ expireAfter = 0
              /\ n \notin DOMAIN cache
              /\ Cardinality(DOMAIN cache) = size) =>
                /\ DOMAIN cache' = ((DOMAIN cache) \ {Head(storeOrder)}) \cup {n}
                /\ \A k \in (DOMAIN cache) \ {Head(storeOrder)} : cache'[k] = cache[k]
          /\ (ResolveStarts(t, n) /\ n \notin DOMAIN cache) => pc'[t] = "base"
      ]_vars

\* size 2: after a, b, c were stored in this order, a is gone, b and c are cached
C5_Witness ==
    /\ size = 2
    /\ expireAfter = 0
    /\ ret.how = "stored"
    /\ ret.name = "c"
    /\ ret.evicted = "a"
    /\ storeOrder = <<"b", "c">>
    /\ DOMAIN cache = {"b", "c"}

\* C6: when the base resolver fails, Resolve returns the base resolver's
\* error and no entries, that step leaves map and queue as they are, the
\* thread does not go on to Store, and Resolve returns an error only from
\* there; a Resolve of the (still uncached) name calls the base resolver.
C6_BaseErrorRelayedNotCached ==
    [][/\ \A t \in Threads :
             (pc[t] = "base" /\ pc'[t] \notin {"base", "Store"}) =>
                /\ pc'[t] = "idle"
                /\ ret'.thread = t
                /\ ret'.how = "err"
                /\ ret'.val = NilEntries
                /\ ret'.baseErr \in Errors
                /\ ret'.err = ret'.baseErr
                /\ UNCHANGED <<cache, expirationQueue>>
       /\ ret'.how = "err" => pc[ret'.thread] = "base"
       /\ \A t \in Threads, n \in Names :
             (ResolveStarts(t, n) /\ n \notin DOMAIN cache) => pc'[t] = "base"
      ]_vars

\* a Resolve returned the error of its base resolver, the name is not cached
C6_Witness ==
    /\ ret.call = "Resolve"
    /\ ret.how = "err"
    /\ ret.err = "eTransport"
    /\ ret.name \notin DOMAIN cache

\* C7: when a Resolve(n) stores after another Resolve(n) stored while it was
\* between its miss and its Store, the cache holds one entry for n with the
\* value and creation time of this later Store, and its only queue node is
\* that entry, at the tail.
C7_LaterStoreWins ==
    (ret.how = "stored" /\ ret.call = "Resolve" /\ ret.raced) =>
        /\ ret.name \in DOMAIN cache
        /\ lastStore.name = ret.name
        /\ cache[ret.name] = [name |-> ret.name, created |-> lastStore.at, entries |-> ret.val]
        /\ Cardinality(NodesOf(expirationQueue, ret.name)) = 1
        /\ expirationQueue[Len(expirationQueue)] = cache[ret.name]

\* the second of two racing Resolve calls has stored
C7_Witness ==
    /\ ret.how = "stored"
    /\ ret.call = "Resolve"
    /\ ret.raced
    /\ ret.val = EntriesOf(ret.thread)
    /\ Len(expirationQueue) = 2

\* C8: a thread that is in the base resolver (or waiting to Store) does not
\* hold the mutex; the mutex is only ever held by a thread inside Store, whose
\* remaining step needs nothing from other threads.
C8_MutexNotHeldAcrossBase ==
    /\ \A t \in Threads : pc[t] \in {"idle", "base", "Store"} => mutex # t
    /\ mutex # NoThread => pc[mutex] = "StorePush"

\* one thread is in the base resolver and the other has just completed a Store
C8_Witness ==
    /\ pc["t1"] = "base"
    /\ ret.thread = "t2"
    /\ ret.how = "stored"
    /\ mutex = NoThread

\* C9: whenever the mutex is free, every key of the map has exactly one
\* queue node and every queue node names a key of the map.
C9_MapAndQueueAgree ==
    mutex = NoThread =>
        /\ \A k \in DOMAIN cache : Cardinality(NodesOf(expirationQueue, k)) = 1
        /\ \A i \in 1..Len(expirationQueue) : expirationQueue[i].name \in DOMAIN cache

\* C10: the queue is ordered by non-decreasing creation time, its head is
\* not younger than any cached entry, and a step that removes cached keys
\* (other than the key being stored) removes none that is younger than a key
\* it keeps.
QueueSorted ==
    \A i \in 1..(Len(expirationQueue) - 1) :
        expirationQueue[i].created <= expirationQueue[i + 1].created

HeadIsOldest ==
    expirationQueue # << >> =>
        \A k \in DOMAIN cache : Head(expirationQueue).created <= cache[k].created

RemovedOldestFirst ==
    \A k \in (DOMAIN cache) \ (DOMAIN cache') :
        (\A t \in Threads : ~StoreRuns(t, k)) =>
            \A j \in (DOMAIN cache) \cap (DOMAIN cache') :
                cache[j] = cache'[j] => cache[k].created <= cache[j].created

C10_QueueOrderedByCreation ==
    /\ [](QueueSorted /\ HeadIsOldest)
    /\ [][RemovedOldestFirst]_vars

\* two entries of different age are queued, the older one first
C10_Witness ==
    /\ Len(expirationQueue) = 2
    /\ expirationQueue[1].created < expirationQueue[2].created

\* C11: with size N > 0 the map never holds more than N keys, in any
\* reachable state (also while a Store holds the mutex).
C11_NeverMoreThanSizeKeys == size > 0 => Cardinality(DOMAIN cache) <= size

\* a Store into a full cache of size 2 has evicted the oldest key and returned
C11_Witness ==
    /\ size = 2
    /\ ret.how = "stored"
    /\ ret.evicted # ""
    /\ Cardinality(DOMAIN cache) = size

\* C12: a Store(k, v2) that finds k cached and unexpired leaves k mapped to v2
\* with the creation time of this Store, unlinks k's old node, and keeps
\* every other unexpired key as it was, also when the cache is full; when it
\* returns, k's only node is the tail of the queue; and a Lookup(k) that
\* follows with no Store in between returns v2 as long as the TTL counted
\* from this Store has not elapsed.
C12_StoreReplacesInPlace ==
    [][/\ \A t \in Threads, n \in Names :
             (StoreRuns(t, n) /\ Live(n)) =>
                /\ replaced'[t]
                /\ cache'[n] = [name |-> n, created |-> now, entries |-> tval'[t]]
                /\ NodesOf(expirationQueue', n) = {}
                /\ \A j \in (DOMAIN cache) \ {n} :
                      Live(j) => j \in DOMAIN cache' /\ cache'[j] = cache[j]
       /\ (ret'.how = "stored" /\ ret'.replaced) =>
             /\ Cardinality(NodesOf(expirationQueue', ret'.name)) = 1
             /\ expirationQueue'[Len(expirationQueue')] = cache'[ret'.name]
             /\ cache'[ret'.name].entries = ret'.val
       /\ \A t \in Threads, n \in Names :
             (/\ LookupRuns(t, n)
              /\ lastStore.name = n
              /\ expireAfter = 0 \/ now - lastStore.at <= expireAfter) =>
                ret'.how = "hit" /\ ret'.val = lastStore.val
      ]_vars

\* a full cache of size 2: the older key was stored again with another value,
\* nothing was evicted, and the key is now the younger one at the tail
C12_Witness ==
    /\ size = 2
    /\ ret.how = "stored"
    /\ ret.replaced
    /\ ret.evicted = ""
    /\ Len(expirationQueue) = 2
    /\ expirationQueue[2].name = ret.name
    /\ expirationQueue[1].created < expirationQueue[2].created
    /\ expirationQueue[1].entries # expirationQueue[2].entries

(***************************************************************************)
(* Properties of httpResolver.Resolve.                                     *)
(***************************************************************************)

\* C1: in one top-level Resolve, Client.Get is called at most once per name.
C1_GetAtMostOncePerName == \A n \in HNames : gets[n] <= 1

\* the names of the frames on the stack are pairwise different
PathDistinct ==
    \A i, j \in 1..Len(stack) : i # j => stack[i].name # stack[j].name

\* C2: whatever the documents, their extension graph and the callback,
\* Resolve returns, and no name is ever entered again while a frame for it is
\* on the recursion path.
C2_ResolveTerminates == [](PathDistinct) /\ <>(hstate = "done")

\* Resolve returned after walking two documents that list each other
C2_Witness ==
    /\ hstate = "done"
    /\ config.callback = "Recurse"
    /\ hret.err = NilError
    /\ {<<"x">>, <<"x", "y">>} \subseteq DOMAIN docs
    /\ docs[<<"x">>].entries = <<pullEntry(<<"x">>), namespaceEntry(<<"x">>, <<(<<"x", "y">>)>>)>>
    /\ docs[<<"x", "y">>].entries =
          <<pullEntry(<<"x", "y">>), namespaceEntry(<<"x", "y">>, <<(<<"x">>), (<<"x", "y">>)>>)>>

\* the elements of a sequence
Range(q) == {q[i] : i \in 1..Len(q)}

\* the Get and the parse of name n succeeded in this Resolve
DocOK(n) == n \in DOMAIN docs /\ docs[n].err = NilError

\* the args of the namespace entry parsed from n's document
nsArgs(n) ==
    IF DocOK(n) /\ Len(docs[n].entries) = 2 THEN docs[n].entries[2].args ELSE << >>

\* the document of the resolved name lists an extension, other than the name,
\* whose scope does not contain the name
ListsNonAncestor ==
    \E a \in Range(nsArgs(hname)) : a # hname /\ ~Contains(a, hname)

\* C13: when the callback answers Recurse for an extension whose scope does
\* not contain the resolved name, Resolve fails with InvalidExtension.
C13_RecurseOutsideScopeFails ==
    (/\ hstate = "done"
     /\ \E a \in Range(nsArgs(hname)) :
           a # hname /\ ~Contains(a, hname) /\ NSResolveCallback(hname, a) = "Recurse") =>
        hret.err.kind = "eInvalidExtension"

\* C14: under the default configuration, resolving a name whose document
\* lists an extension that is not an ancestor of the name fails with an
\* invalid extension error and returns no entries.
C14_DefaultRejectsNonAncestor ==
    (/\ hstate = "done"
     /\ config.callback = "default"
     /\ config.factory = "default"
     /\ ListsNonAncestor) =>
        hret.err.kind = "eInvalidExtension" /\ hret.entries = << >>

\* C15: with PassEntriesResolverFactory and no callback, every extension the
\* document lists, ancestor or not, is fetched, and when Resolve succeeds the
\* namespace entry is returned with all its args.
C15_PassEntriesFetchesAll ==
    (/\ hstate = "done"
     /\ config.callback = "default"
     /\ config.factory = "PassEntries"
     /\ ListsNonAncestor) =>
        /\ \A a \in Range(nsArgs(hname)) : a # hname => gets[a] >= 1
        /\ hret.err = NilError => namespaceEntry(hname, nsArgs(hname)) \in Range(hret.entries)

\* the step is the Get, parse and callback pass of the innermost frame, and
\* they succeed
GetSucceeds ==
    /\ stack # << >>
    /\ Top.phase = "get"
    /\ Len(stack') = Len(stack)
    /\ stack'[Len(stack)].phase = "walk"

\* the args left in the namespace entry of the entries e
keptArgs(e) ==
    IF \E i \in 1..Len(e) : e[i].action = "namespace"
    THEN (CHOOSE x \in Range(e) : x.action = "namespace").args
    ELSE << >>

EntriesOfVisited == UNION {Range(pruneEntries(docs[n].entries, n)) : n \in visited}

\* C17: when the document of the resolved name lists an extension whose scope
\* contains the name and the callback answers Recurse, the extension is
\* fetched by a Resolve that succeeds, and it returns the union of the entries
\* of the documents it parsed, among them the entries of the name's document under
\* the name's scope, the entries of the extension's document (if it parsed)
\* under the extension's scope, and a namespace entry that lists the extension.
C17_AncestorExtensionMerged ==
    \A a \in Range(nsArgs(hname)) :
        (/\ hstate = "done"
         /\ a # hname
         /\ Contains(a, hname)
         /\ NSResolveCallback(hname, a) = "Recurse"
         /\ hret.err = NilError) =>
            /\ gets[a] >= 1
            /\ Range(hret.entries) = EntriesOfVisited
            /\ pullEntry(hname) \in Range(hret.entries)
            /\ DocOK(a) => pullEntry(a) \in Range(hret.entries)
            /\ \E e \in Range(hret.entries) :
                  e.scope = hname /\ e.action = "namespace" /\ a \in Range(e.args)

\* Resolve(x/y) returned the entries of x/y, the namespace entry listing x,
\* and the entries of x
C17_Witness ==
    /\ hstate = "done"
    /\ config.callback = "Recurse"
    /\ hname = <<"x", "y">>
    /\ nsArgs(hname) = <<(<<"x">>)>>
    /\ hret.err = NilError
    /\ Range(hret.entries) =
          {pullEntry(hname), namespaceEntry(hname, <<(<<"x">>)>>), pullEntry(<<"x">>)}

\* only the resolved name was fetched, and once
OneGetOnly == \A n \in HNames : gets[n] = IF n = hname THEN 1 ELSE 0

Failed(n) == n \in DOMAIN docs /\ docs[n].err # NilError

\* C19: with IgnoreNSDiscoveryErrors = false, once the fetch or parse of a
\* name has failed no further Get is made, and Resolve returns that error and
\* no entries.
C19_FirstFailureAborts ==
    /\ [](\A n \in HNames :
             (~config.ignoreErrors /\ hstate = "done" /\ Failed(n)) =>
                /\ hret.err = docs[n].err
                /\ hret.entries = << >>
                /\ gets[n] = 1)
    /\ [][(~config.ignoreErrors /\ \E n \in HNames : Failed(n)) => gets' = gets]_vars

\* Resolve(x/y) returned the error of z; x, listed after z, was not fetched
C19_Witness ==
    /\ hstate = "done"
    /\ ~config.ignoreErrors
    /\ config.callback = "Recurse"
    /\ hname = <<"x", "y">>
    /\ nsArgs(hname) = <<(<<"z">>), (<<"x">>)>>
    /\ Failed(<<"z">>)
    /\ hret = [entries |-> << >>, err |-> discoveryError("e404", <<"z">>)]
    /\ gets[<<"x">>] = 0

\* C20: with IgnoreNSDiscoveryErrors = true, a Resolve whose own document is
\* fetched and parsed succeeds whatever happens to the extensions: every
\* extension selected for recursion in a parsed document is fetched, and the
\* result is the union of the entries of the name's document and of every
\* extension whose own fetch and parse succeeded.
C20_ExtensionFailuresSkipped ==
    (config.ignoreErrors /\ hstate = "done" /\ DocOK(hname)) =>
        /\ hret.err = NilError
        /\ visited = {n \in HNames : DocOK(n)}
        /\ Range(hret.entries) = EntriesOfVisited
        /\ Range(pruneEntries(docs[hname].entries, hname)) \subseteq Range(hret.entries)
        /\ \A n \in visited : \A a \in Range(nsArgs(n)) :
              (a # n /\ NSResolveCallback(n, a) = "Recurse") => gets[a] >= 1

\* Resolve(x/y) succeeded: z, listed first, failed, and x, listed after it,
\* was fetched and its entries are in the result
C20_Witness ==
    /\ hstate = "done"
    /\ config.ignoreErrors
    /\ config.callback = "Recurse"
    /\ hname = <<"x", "y">>
    /\ nsArgs(hname) = <<(<<"z">>), (<<"x">>)>>
    /\ Failed(<<"z">>)
    /\ DocOK(<<"x">>)
    /\ hret.err = NilError
    /\ pullEntry(<<"x">>) \in Range(hret.entries)

(***************************************************************************)
(* Properties of the fetch and parse of one discovery document.            *)
(***************************************************************************)

\* C21: when the Get for a name fails or its endpoint replies with a non-2xx
\* status, the body is never handed to the parser, and the call returns an
\* error (the one naming the status, for a reply) and no entries.
C21_FailedFetchIsNotParsed ==
    (presp.getErr \/ presp.status \notin 200..299) =>
        /\ pstate # "parsing"
        /\ ptokens = 0
        /\ ~readingMetaTags
        /\ pentries = << >>
        /\ pstate = "done" =>
              /\ pret.entries = << >>
              /\ pret.err # NoParseError
              /\ ~presp.getErr => pret.err = statusError(presp.status)

\* a 404 reply made the call return the error carrying that status
C21_Witness ==
    /\ pstate = "done"
    /\ ~presp.getErr
    /\ presp.status = 404
    /\ pret.err.status = 404
    /\ pret.entries = << >>

\* the parsing loop ended at the end of input or at </head>
LoopEnded == pstate = "done" /\ pend \in {"EOF", "</head>"}

\* C26: whenever the parse of a document for the requested name succeeds,
\* all returned entries carry one scope: the scope of the document's
\* docker-scope tag when the parser read one, before or after the other
\* tags, and the requested name otherwise.
C26_OneScopeForAllEntries ==
    (pstate = "done" /\ pret.err = NoParseError) =>
        /\ pscopes > 0 <=> parsedScope # ""
        /\ parsedScope \notin InvalidScopes \ {""}
        /\ \A k \in 1..Len(pret.entries) :
              pret.entries[k].scope = IF pscopes > 0 THEN parsedScope ELSE pname
        /\ [k \in 1..Len(pentries) |-> [pentries[k] EXCEPT !.scope = ""]] =
              [k \in 1..Len(pret.entries) |-> [pret.entries[k] EXCEPT !.scope = ""]]

\* two entries parsed first and the docker-scope tag last: both carry its scope
C26_Witness ==
    /\ pstate = "done"
    /\ pret.err = NoParseError
    /\ pmeta.tag = htmlMetaTagScope
    /\ Len(pret.entries) = 2
    /\ pret.entries[1].scope = "p"
    /\ pret.entries[2].scope = "p"
    /\ pname = "n"

\* C27: once the parser has read a second docker-scope tag, the parse has
\* failed with the multiple-scopes error and returns no entries, whatever
\* accepted tags came before, between or after the two.
C27_TwoScopesFail ==
    pscopes >= 2 =>
        /\ pstate = "done"
        /\ pret = [entries |-> << >>, err |-> parseError("multiple scopes defined")]

\* an entry tag and two docker-scope tags were read
C27_Witness ==
    /\ pscopes = 2
    /\ pentries # << >>
    /\ pret.err = parseError("multiple scopes defined")

\* C28: a parse that reaches the end of the head without having collected
\* an entry fails with the no-entries error, and no successful parse
\* returns an empty Entries.
C28_NoEntriesIsAnError ==
    /\ (LoopEnded /\ pentries = << >>) =>
          pret = [entries |-> << >>, err |-> parseError("no entries found")]
    /\ (pstate = "done" /\ pret.err = NoParseError) => pret.entries # << >>

\* a document with a docker-scope tag alone
C28_Witness ==
    /\ LoopEnded
    /\ pscopes = 1
    /\ ptokens = 2
    /\ pentries = << >>
    /\ pret.err = parseError("no entries found")

\* C29: when the parser collected entries and read no docker-scope tag,
\* the parse returns every entry with the requested name as its scope if
\* the name is a valid scope, and fails returning no entries if it is not.
C29_NameIsTheDefaultScope ==
    (LoopEnded /\ pscopes = 0 /\ pentries # << >>) =>
        IF parseScope(pname).err = NoParseError
        THEN /\ pret.err = NoParseError
             /\ Len(pret.entries) = Len(pentries)
             /\ \A k \in 1..Len(pret.entries) : pret.entries[k].scope = pname
        ELSE pret = [entries |-> << >>, err |-> parseError("cannot use given name as scope")]

\* entries without a scope tag, requested under a name ending in "/"
C29_Witness ==
    /\ LoopEnded
    /\ pscopes = 0
    /\ pentries # << >>
    /\ pname = "n/"
    /\ pret.err = parseError("cannot use given name as scope")

\* the actions of the entries that parseHTMLMetaTag returned
metaActions == [k \in 1..Len(pmeta.entries) |-> pmeta.entries[k].action]

\* C30: a docker-registry tag parsed without error yields exactly a pull and
\* a push entry with the same args; docker-registry-pull, docker-registry-push,
\* docker-index and docker-namespace yield exactly one entry of their action,
\* and docker-scope yields none.
C30_EntriesPerTag ==
    /\ \A i, j \in 1..Len(pmeta.entries) : pmeta.entries[i].args = pmeta.entries[j].args
    /\ pmeta.err = NoParseError =>
          /\ pmeta.tag = "docker-registry" => metaActions = <<"pull", "push">>
          /\ pmeta.tag = "docker-registry-pull" => metaActions = <<"pull">>
          /\ pmeta.tag = "docker-registry-push" => metaActions = <<"push">>
          /\ pmeta.tag = "docker-index" => metaActions = <<"index">>
          /\ pmeta.tag = htmlMetaTagNamespace => metaActions = <<"namespace">>
          /\ pmeta.tag = htmlMetaTagScope => metaActions = << >>
          /\ pmeta.tag = htmlMetaTagInvalid => pmeta = NoMeta

\* a docker-registry tag with two words of content
C30_Witness ==
    /\ pmeta.tag = "docker-registry"
    /\ metaActions = <<"pull", "push">>
    /\ pmeta.entries[1].args = <<"p", "u">>
    /\ pmeta.entries[2].args = <<"p", "u">>

\* C22: an arg (other than the name itself) of a fetched document's
\* namespace entry for which the callback answers Pass is not fetched
\* because of it -- a name is fetched only as the requested name or as an
\* arg for which the callback answered Recurse -- and when Resolve succeeds
\* the arg is still among the args of that document's namespace entry in
\* the result.
C22_PassedArgKeptNotFetched ==
    /\ \A a \in HNames :
          gets[a] > 0 =>
             \/ a = hname
             \/ \E n \in DOMAIN docs : /\ DocOK(n)
                                      /\ a \in Range(nsArgs(n))
                                      /\ a # n
                                      /\ NSResolveCallback(n, a) = "Recurse"
    /\ (hstate = "done" /\ hret.err = NilError) =>
          \A n \in visited : \A a \in Range(nsArgs(n)) :
             (a # n /\ NSResolveCallback(n, a) = "Pass") =>
                \E k \in 1..Len(hret.entries) :
                   /\ hret.entries[k].scope = n
                   /\ hret.entries[k].action = "namespace"
                   /\ a \in Range(hret.entries[k].args)

\* Resolve(x/y) where the document lists z, which is passed, and x, which
\* is followed: z was never fetched and both are args of the entry returned
C22_Witness ==
    /\ hstate = "done"
    /\ config.callback = "PassOutside"
    /\ hname = <<"x", "y">>
    /\ nsArgs(hname) = <<(<<"z">>), (<<"x">>)>>
    /\ hret.err = NilError
    /\ gets[<<"z">>] = 0
    /\ gets[<<"x">>] = 1
    /\ namespaceEntry(hname, nsArgs(hname)) \in Range(hret.entries)

(***************************************************************************)
(* Properties of the pruning of one document.                              *)
(***************************************************************************)

C24_EmptyNamespaceKept ==
    (hstate = "done" /\ hret.err = NilError /\ config.callback = "default") =>
        \A n \in visited \ {hname} :
           (Len(docs[n].entries) = 2 /\ docs[n].entries[2].args = << >>) =>
               namespaceEntry(n, << >>) \in Range(hret.entries)

(***************************************************************************)
(* Properties of concurrent Resolve calls.                                 *)
(***************************************************************************)

\* resolveEntries(es, visited, name) run to its end with no other call, against
\* the documents served so far: the entries, the visited map and the error
\* it leaves; walkAlone is its loop over the extensions (lines 362-370)
RECURSIVE resolveEntriesAlone(_, _, _)
RECURSIVE walkAlone(_, _, _)
resolveEntriesAlone(es, vis, name) ==
    IF name \notin DOMAIN docs
    THEN [es |-> es, visited |-> vis, err |-> discoveryError("not served", name)]
    ELSE IF docs[name].err # NilError
    THEN [es |-> es, visited |-> vis, err |-> docs[name].err]
    ELSE LET parsed == docs[name].entries
             args == IF Len(parsed) = 2 THEN parsed[2].args ELSE << >>
             w == walkAlone(pruneEntries(parsed, name), vis \cup {name},
                            collectExtensions(args, name, vis, 1))
         IN IF w.err # NilError
            THEN [es |-> es, visited |-> w.visited, err |-> w.err]
            ELSE [es |-> mergeInto(es, w.es), visited |-> w.visited, err |-> NilError]

walkAlone(entries, vis, extensions) ==
    IF extensions = << >> THEN [es |-> entries, visited |-> vis, err |-> NilError]
    ELSE LET r == resolveEntriesAlone(entries, vis, Head(extensions))
         IN IF r.err # NilError /\ ~IgnoreNSDiscoveryErrors
            THEN [es |-> entries, visited |-> r.visited, err |-> r.err]
            ELSE walkAlone(r.es, r.visited, Tail(extensions))

\* what Resolve(name) returns when it runs alone
ResolveAlone(name) ==
    LET r == resolveEntriesAlone(<< >>, {}, name)
    IN IF r.err # NilError THEN [entries |-> << >>, err |-> r.err]
       ELSE [entries |-> r.es, err |-> NilError]

\* C25: whatever the interleaving of two Resolve calls on one httpResolver,
\* each call returns, entry for entry and in the same order, what Resolve of
\* its name returns when it runs alone against the same documents, and has
\* visited the same names.
C25_ConcurrentCallsIndependent ==
    /\ hstate = "done" => hret = ResolveAlone(hname)
    /\ hstate2 = "done" => hret2 = ResolveAlone(hname2)
    /\ (hstate = "done" /\ hstate2 = "done" /\ hname = hname2) =>
          hret = hret2 /\ visited = visited2

\* both calls are in progress for the same name: the first has its result
\* (the entries of two documents) and is about to return it, the second has
\* fetched a document and still walks
C25_Witness ==
    /\ hstate = "running"
    /\ stack = << >>
    /\ herr = NilError
    /\ hname = <<"x", "y">>
    /\ acc = ResolveAlone(hname).entries
    /\ pullEntry(<<"x">>) \in Range(acc)
    /\ hstate2 = "running"
    /\ hname2 = hname
    /\ stack2 # << >>
    /\ visited2 # {}

(***************************************************************************)
(* Properties of the cache configuration (size, expireAfter).              *)
(***************************************************************************)

\* C31: a cache built with a negative size is unbounded: every Store
\* succeeds (none ends in a panic), no Store evicts an entry for capacity,
\* and a Lookup or Resolve of a stored key whose TTL has not elapsed is a hit.
C31_NegativeSizeIsUnbounded ==
    /\ [](size < 0 => ret.how # "panic")
    /\ [][size < 0 => \A t \in Threads : evicted'[t] = ""]_vars
    /\ [][\A t \in Threads, n \in Names :
             (/\ size < 0
              /\ LookupRuns(t, n) \/ ResolveStarts(t, n)
              /\ Live(n)) => ret'.how = "hit"]_vars

\* C32: with expireAfter = 0 no step removes a key because of its age: a key
\* leaves the map only as the one a Store evicts for capacity, and a Lookup
\* or Resolve of a cached key is a hit on the cached Entries whatever time
\* has passed since it was stored.
C32_ZeroDisablesExpiry ==
    [][expireAfter = 0 =>
          /\ \A k \in (DOMAIN cache) \ (DOMAIN cache') :
                \E t \in Threads, n \in Names :
                    /\ StoreRuns(t, n)
                    /\ evicted'[t] = k
                    /\ Cardinality(DOMAIN cache) = size
          /\ \A t \in Threads, n \in Names :
                (/\ LookupRuns(t, n) \/ ResolveStarts(t, n)
                 /\ n \in DOMAIN cache) =>
                    /\ ret'.how = "hit"
                    /\ ret'.val = cache[n].entries
      ]_vars

\* without expiry, a Lookup hit a key that was stored MaxTime ago
C32_Witness ==
    /\ expireAfter = 0
    /\ ret.call = "Lookup"
    /\ ret.how = "hit"
    /\ ret.name \in DOMAIN cache
    /\ now - cache[ret.name].created = MaxTime

\* C33: a Lookup (also the one that starts a Resolve) changes the map and
\* the queue only by sweeping expired entries off the queue head: the nodes
\* it keeps are a suffix of the queue, the keys it keeps have the entry they
\* had, every removed node had outlived a non-zero expireAfter; so a hit on
\* k leaves k's creation time and k's place among the remaining nodes as
\* they were, and a key whose TTL has elapsed is a miss whatever hits it had.
C33_LookupDoesNotRefresh ==
    [][\A t \in Threads, n \in Names :
          (LookupRuns(t, n) \/ ResolveStarts(t, n)) =>
             /\ \E i \in 0..Len(expirationQueue) :
                   /\ expirationQueue' = SubSeq(expirationQueue, i + 1, Len(expirationQueue))
                   /\ \A j \in 1..i :
                         /\ expireAfter # 0
                         /\ expirationQueue[j].created + expireAfter < now
                   /\ DOMAIN cache' =
                         (DOMAIN cache) \ {expirationQueue[j].name : j \in 1..i}
             /\ \A k \in DOMAIN cache' : cache'[k] = cache[k]
             /\ ret'.how = "hit" =>
                   /\ cache'[n] = cache[n]
                   /\ NodesOf(expirationQueue', n) # {}
                   /\ \A k \in DOMAIN cache' :
                         cache'[k].created < cache'[n].created =>
                            \A a \in NodesOf(expirationQueue', k),
                               b \in NodesOf(expirationQueue', n) : a < b
             /\ (/\ n \in DOMAIN cache
                 /\ expireAfter # 0
                 /\ cache[n].created + expireAfter < now) => n \notin DOMAIN cache'
      ]_vars

\* a Lookup hit the older of two cached keys after time had passed: its node
\* is still the head of the queue, the next one to expire or to be evicted
C33_Witness ==
    /\ ret.call = "Lookup"
    /\ ret.how = "hit"
    /\ Len(expirationQueue) = 2
    /\ expirationQueue[1].name = ret.name
    /\ expirationQueue[1].created < expirationQueue[2].created
    /\ expirationQueue[2].created < now
    /\ cache[ret.name] = expirationQueue[1]
    /\ size = 2

\* the cached keys whose TTL has elapsed
ExpiredKeys == {k \in DOMAIN cache : expireAfter # 0 /\ cache[k].created + expireAfter < now}

\* C34: every Lookup, Resolve and Store removes all the entries whose TTL has
\* elapsed when it runs (a Store may put its own key back, created now), and
\* a Store evicts for capacity only an unexpired entry, and only when the
\* unexpired keys other than the stored one still fill the cache.
C34_EveryOperationSweeps ==
    [][\A t \in Threads, n \in Names :
          /\ (LookupRuns(t, n) \/ ResolveStarts(t, n)) =>
                (DOMAIN cache') \cap ExpiredKeys = {}
          /\ StoreRuns(t, n) =>
                /\ (DOMAIN cache') \cap ExpiredKeys \subseteq {n}
                /\ cache'[n].created = now
                /\ evicted'[t] # "" =>
                      /\ evicted'[t] \in (DOMAIN cache) \ (ExpiredKeys \cup {n})
                      /\ Cardinality((DOMAIN cache) \ (ExpiredKeys \cup {n})) = size
                /\ evicted'[t] = "" =>
                      /\ Cardinality((DOMAIN cache) \ (ExpiredKeys \cup {n})) < size
                      /\ DOMAIN cache' = ((DOMAIN cache) \ ExpiredKeys) \cup {n}
      ]_vars

\* a Resolve stored a name that another Resolve had stored while it was in
\* the base resolver, and did not find it cached: the entry had expired and
\* was swept, and nothing was evicted for capacity
C34_Witness ==
    /\ expireAfter > 0
    /\ ret.call = "Resolve"
    /\ ret.how = "stored"
    /\ ret.raced
    /\ ~ret.replaced
    /\ ret.evicted = ""
    /\ DOMAIN cache = {ret.name}

\* C35: in the config-based caching resolver, whenever the mutex is free
\* every queue node names a cached key and no two nodes name the same key,
\* and the map never holds more than maxEntries keys.
C35_QueueNodesAreDistinctKeys ==
    /\ mutex = NoThread =>
          /\ \A i \in 1..Len(expirationQueue) : expirationQueue[i].name \in DOMAIN cache
          /\ \A i, j \in 1..Len(expirationQueue) :
                expirationQueue[i].name = expirationQueue[j].name => i = j
    /\ Cardinality(DOMAIN cache) <= size

\* C36: the Entries a frame of resolveEntries was given (acc for the
\* outermost frame, the caller's entries for an inner one) are written only
\* by the step in which that frame returns nil; a step that returns or
\* passes on an error writes no frame's entries and not acc, so a failed
\* resolveEntries leaves its accumulator as it was on entry, and Resolve
\* returns no entries together with an error.
C36_ErrorLeavesAccumulator ==
    /\ [][/\ herr' # NilError =>
                /\ acc' = acc
                /\ \A i \in 1..Len(stack') : stack'[i].entries = stack[i].entries
          /\ \A i \in 1..(Len(stack) - 1) :
                (i <= Len(stack') /\ stack'[i].entries # stack[i].entries) =>
                    /\ i = Len(stack) - 1
                    /\ Len(stack') = i
                    /\ herr = NilError /\ herr' = NilError
          /\ (hstate = "running" /\ acc' # acc) =>
                /\ Len(stack) = 1 /\ stack' = << >>
                /\ herr = NilError /\ herr' = NilError
         ]_vars
    /\ [](hstate = "running" /\ stack = << >> /\ herr # NilError => acc = << >>)
    /\ [](hstate = "done" /\ hret.err # NilError => hret.entries = << >>)

\* x lists x/y and z: the entries of x/y were joined into those of x, then z
\* failed, and Resolve(x) returned the error of z and no entries
C36_Witness ==
    /\ hstate = "done"
    /\ hname = <<"x">>
    /\ ~config.ignoreErrors
    /\ <<"x">> \in DOMAIN docs /\ docs[<<"x">>].err = NilError
    /\ Len(docs[<<"x">>].entries) = 2
    /\ docs[<<"x">>].entries[2].args = << <<"x", "y">>, <<"z">> >>
    /\ visited = {<<"x">>, <<"x", "y">>}
    /\ docs[<<"x", "y">>].entries = <<pullEntry(<<"x", "y">>)>>
    /\ gets[<<"z">>] = 1
    /\ hret.err = discoveryError("e404", <<"z">>)
    /\ hret.entries = << >>
    /\ acc = << >>

\* C37: a name enters the visited set in the step in which its document was
\* fetched and parsed without error, and in no other; every frame that has
\* got its document, and every frame that has a frame for one of its
\* extensions above it, has its name in the set; a name whose fetch or parse
\* failed is not in it.
C37_VisitedAfterParseBeforeExtensions ==
    /\ [][hstate = "running" =>
             /\ visited' # visited =>
                   /\ GetSucceeds
                   /\ visited' = visited \cup {Top.name}
                   /\ docs'[Top.name].err = NilError
             /\ GetSucceeds => Top.name \in visited'
         ]_vars
    /\ [](\A i \in 1..Len(stack) :
             (stack[i].phase = "walk" \/ i < Len(stack)) => stack[i].name \in visited)
    /\ [](\A n \in HNames : (n \in visited => DocOK(n)) /\ (Failed(n) => n \notin visited))

\* x was parsed and is visited, its extension x/y is being fetched and is not
\* visited yet, and z, fetched before as an extension of x, failed and is not
\* visited
C37_Witness ==
    /\ hstate = "running"
    /\ Len(stack) = 2
    /\ stack[1].name = <<"x">>
    /\ stack[2].name = <<"x", "y">>
    /\ stack[2].phase = "get"
    /\ visited = {<<"x">>}
    /\ Failed(<<"z">>)
    /\ gets[<<"x", "y">>] = 0

(***************************************************************************)
(* Properties of the callback loop of resolveEntries.                      *)
(***************************************************************************)
\* the positions <<entry, arg>> of the namespace args of the parsed document
ArgPositions ==
    {p \in (1..Len(qparsed)) \X (1..MaxArgs) :
        /\ qparsed[p[1]].action = "namespace"
        /\ p[2] <= Len(qparsed[p[1]].args)}

ArgAt(p) == qparsed[p[1]].args[p[2]]

\* C38: while the document of a name is processed the callback is called
\* for no arg equal to the name and at most once for each other arg, and
\* exactly once for each of them when the loop runs to its end; an arg equal
\* to the name stays in the args of its entry and is not among the
\* extensions to fetch.
C38_CallbackOncePerOtherArg ==
    qstate # "parsed" =>
        /\ \A c \in Range(qargcalls) : c \in ArgPositions /\ ArgAt(c) # qname
        /\ \A a, b \in 1..Len(qargcalls) : qargcalls[a] = qargcalls[b] => a = b
        /\ qstate = "pruned" =>
              /\ \A p \in ArgPositions : ArgAt(p) # qname => p \in Range(qargcalls)
              /\ \A i \in 1..Len(qparsed) :
                    qparsed[i].action = "namespace" =>
                       /\ qname \notin Range(qexts[i])
                       /\ SelectSeq(pruneArgs(qparsed, qname)[i].args, LAMBDA a : a = qname)
                             = SelectSeq(qparsed[i].args, LAMBDA a : a = qname)

\* under a callback that recurses, a document whose entries list z twice and
\* the name itself was processed: two calls, both for z, and no extension x
C38_Witness ==
    /\ qstate = "pruned"
    /\ config.callback = "Recurse"
    /\ qparsed = <<namespaceEntry(qname, << <<"z">>, <<"z">> >>),
                   namespaceEntry(qname, << qname, <<"z">> >>)>>
    /\ qargcalls = << <<1, 1>>, <<1, 2>>, <<2, 2>> >>
    /\ qexts[2] = << <<"z">> >>

\* position c comes before position b in the loop over entries and args
Before(c, b) == c[1] < b[1] \/ (c[1] = b[1] /\ c[2] < b[2])

\* C39: resolveEntries fails for a document exactly when one of its
\* namespace args, other than the name, is not a valid scope; the callback
\* was then not called for that arg, no entries and no extensions are left
\* to return or fetch, and this is so whatever IgnoreNSDiscoveryErrors and
\* the callback are.
C39_InvalidArgFailsFirst ==
    qstate # "parsed" =>
        LET bad == {p \in ArgPositions : ArgAt(p) # qname /\ ArgAt(p) = <<"x", "">>}
        IN /\ qstate = "failed" <=> bad # {}
           /\ qstate = "failed" =>
                 /\ Range(qargcalls) \cap bad = {}
                 /\ \A c \in Range(qargcalls), b \in bad : Before(c, b)
                 /\ \A p \in ArgPositions :
                       (ArgAt(p) # qname /\ \A b \in bad : Before(p, b)) =>
                           p \in Range(qargcalls)
                 /\ qexts = << >>
                 /\ qentries = << >>

\* with IgnoreNSDiscoveryErrors and a callback that ignores every extension,
\* the document lists z and then "x/": the callback was called for z only
\* and resolveEntries failed
C39_Witness ==
    /\ qstate = "failed"
    /\ config.ignoreErrors
    /\ config.callback = "Ignore"
    /\ qparsed = <<namespaceEntry(qname, << <<"z">>, <<"x", "">> >>)>>
    /\ qargcalls = << <<1, 1>> >>
    /\ qentries = << >>

====
